---- MODULE Spec2Model ----
(***************************************************************************)
(* A model of pyvmwareapi's session layer (src/driver.py): the retrying    *)
(* remote call VMwareAPISession._call_method, the session (re)creation     *)
(* VMwareAPISession._create_session, and the task waiter                   *)
(* _wait_for_task/_poll_task; and of the spawn workflow VMwareVMOps.spawn   *)
(* in its two versions, src/vmops.py and src/pyvmwareapi/vmops.py; and of   *)
(* the port group resolver ensure_vlan_bridge/create_port_group, and of the *)
(* VM lifecycle operations of src/vmops.py (destroy, rescue, unrescue,      *)
(* migrate, confirm, revert).  The                                          *)
(* management endpoint is the environment: it answers each attempt with     *)
(* any outcome, may expire a login, and runs the jobs it was handed.        *)
(***************************************************************************)
EXTENDS Integers, Sequences, FiniteSets, TLC

\* ---------------------------------------------------------------- bounds
MaxRetry == 2          \* api_retry_count ranges over 0..MaxRetry
MaxInvokes == 2        \* _call_method invocations started in one behaviour
MaxPolls == 4          \* polls of one _wait_for_task
MaxSpawns == 2         \* spawn calls made in one behaviour
MaxLifeOps == 3        \* lifecycle operations started in one behaviour

\* ------------------------------------------------------------- vocabulary
Workers == {"w1", "w2"}
None == "None"
NoSession == 0         \* self._session_id = None; also "no handle yet"
Ok == "Ok"
NotAuthenticated == "NotAuthenticated"
AlreadyExists == "AlreadyExists"
InvalidArgument == "InvalidArgument"
Overloaded == "Overloaded"
OtherError == "OtherError"
LoginFailed == "LoginFailed"
Value == "Value"
Empty == "Empty"

\* What one attempt of the remote call can produce (vim.py classifies failures).
Outcomes == {Ok, NotAuthenticated, AlreadyExists, InvalidArgument, Overloaded, OtherError}

VARIABLES
  workers,          \* the greenthreads sharing the one Session
  api_retry_count,  \* self.api_retry_count
  vim,              \* self.vim: id of the current connection handle
  session_id,       \* self._session_id: token of the current login, or None
  active,           \* endpoint: tokens of the logins that are alive
  created,          \* connection handles created so far (ids 1..created)
  failedTerms,      \* TerminateSession calls that raised (swallowed)
  invokes,          \* _call_method invocations started
  pc,               \* per worker: position in _call_method/_create_session
  module,           \* per worker: the module argument (handle id, or None)
  args,             \* per worker: the positional args of the call
  retry_count,      \* per worker: local retry_count
  last_fault_list,  \* per worker: local last_fault_list
  exc,              \* per worker: local exc
  usedHandle,       \* per worker: handle the latest attempt was issued through
  loginVia,         \* per worker: the handle its pending Login was sent through
  session,          \* per worker: _create_session's local session (token)
  termTarget,       \* per worker: sessionId sent with TerminateSession
  outcomes,         \* per worker: outcome of every attempt of this invocation
  relogins,         \* per worker: _create_session calls of this invocation
  result,           \* per worker: what _call_method returned
  raised,           \* per worker: what _call_method raised
  taskPc,           \* waiter: position in _wait_for_task
  observed,         \* waiter: what each poll's _call_method produced
  done,             \* waiter: the event done (unset until sent)
  running,          \* waiter: the looping call is started and has not ended
  loopPc,           \* waiter: the looping call is about to poll, or asleep
  taskInfo,         \* endpoint: the info property of the task waited for
  variant,          \* which vmops module runs: src/vmops.py or the package's
  conf,             \* CONF: use_linked_clone, flat_injected, vnc_enabled
  vmware_disktype,  \* the image's property vmware_disktype
  should_create_vlan, \* the network's meta should_create_vlan
  vms,              \* endpoint: names of the VMs registered
  powered,          \* endpoint: names of the VMs powered on
  files,            \* endpoint: the vmdk files in the datastore
  folders,          \* endpoint: the folders in the datastore
  networks,         \* endpoint: names of the networks (port groups)
  instance,         \* spawn: the request (its name)
  disk_type,        \* spawn: local disk_type
  spPc,             \* spawn: position in spawn
  spNext,           \* spawn: where spawn continues after the pending wait
  spTask,           \* endpoint: the job spawn issued last
  spFault,          \* spawn: what the failed spawn raised, and where
  spawns,           \* spawn calls started
  ops,              \* the remote operations this spawn issued, in order
  made,             \* per instance name: shell VMs and disks the jobs created
  pnics,            \* endpoint: the host's physical network adapters
  vswitch,          \* endpoint: the vSwitch of vmnic0, or None
  pgAdds,           \* endpoint: AddPortGroup calls that created a port group
  netPc,            \* per caller: position in ensure_vlan_bridge
  network_ref,      \* per caller: ensure_vlan_bridge's local network_ref
  addResult,        \* per caller: what its AddPortGroup call produced
  netRet,           \* per caller: network_ref that _get_vif_infos stored
  netRaised,        \* per caller: what ensure_vlan_bridge raised
  hvms,             \* endpoint: the registered VMs (id, name, power, folder, disks)
  hdirs,            \* endpoint: the VM folders in the datastore
  nextId,           \* endpoint: id of the next VM it creates
  lop,              \* lifecycle: the operation called last
  lpc,              \* lifecycle: position in that operation
  lname,            \* lifecycle: instance['name']
  lentry,           \* lifecycle: instance['name'] when the operation was called
  vm_ref,           \* lifecycle: local vm_ref (0 is None)
  destroy_disks,    \* lifecycle: destroy's argument destroy_disks
  lnext,            \* lifecycle: where it goes on after the pending wait
  lfail,            \* lifecycle: where it goes on when the wait raises
  ltask,            \* endpoint: the job issued last
  llog,             \* the remote calls of this operation, in order
  lres,             \* lifecycle: how the operation ended
  lifeOps,          \* lifecycle operations started
  lprev,            \* the operation before this one, and how it ended
  torn,             \* teardown: whether __del__ has run
  logout,           \* teardown: what the Logout call did
  delRaised,        \* teardown: the exception that left __del__, or None
  excep,            \* request handler: the exception the request raised
  handled           \* request handler: what left vim_request_handler

sessVars == <<workers, api_retry_count, vim, session_id, active, created,
              failedTerms, invokes>>
callVars == <<pc, module, args, retry_count, last_fault_list, exc, usedHandle,
              loginVia, session, termTarget, outcomes, relogins, result, raised>>
taskVars == <<taskPc, observed, done, running, loopPc, taskInfo>>
confVars == <<variant, conf, vmware_disktype, should_create_vlan>>
hostVars == <<vms, powered, files, folders, networks>>
spawnVars == <<instance, disk_type, spPc, spNext, spTask, spFault, spawns, ops, made>>
netVars == <<pnics, vswitch, pgAdds, netPc, network_ref, addResult, netRet, netRaised>>
lhostVars == <<hvms, hdirs, nextId>>
lifeVars == <<lop, lpc, lname, lentry, vm_ref, destroy_disks, lnext, lfail, ltask, llog,
              lres, lifeOps, lprev>>
downVars == <<torn, logout, delRaised>>
vimVars == <<excep, handled>>
restVars == <<netVars, lhostVars, lifeVars, downVars, vimVars>>
vmVars == <<confVars, hostVars, spawnVars, restVars>>
vars == <<sessVars, callVars, taskVars, vmVars>>

\* A positional argument: a connection handle or a plain argument.
VimArg(h) == [kind |-> "vim", id |-> h]
PlainArg == [kind |-> "arg", id |-> 0]

\* A module that is not a connection handle (vim_util, vm_util, ...).
UtilModule == [kind |-> "util", id |-> 0]

\* _is_vim_object: isinstance(module, vim.Vim).
IsVimObject(m) == m.kind = "vim"

\* excep.fault_list of a VimFaultException; the other outcomes carry none.
FaultList(o) == IF o \in {NotAuthenticated, AlreadyExists, InvalidArgument} THEN {o} ELSE {}

\* The except clause an outcome lands in.
IsVimFault(o) == o \in {NotAuthenticated, AlreadyExists, InvalidArgument}
\* Variants: the retrying clause also catching plain exceptions; no retry at all.
IsSessionOverLoadBroad(o) == o \in {Overloaded, OtherError}
IsSessionOverLoadNever(o) == FALSE
IsSessionOverLoad(o) == o = Overloaded

\* Lines 351-356: a module that is no handle gets [self.vim] + args, the
\* handle of the previous try dropped first.
ReattachArgs(m, rc, a, v) ==
  IF ~IsVimObject(m)
    THEN <<VimArg(v)>> \o (IF rc > 0 THEN Tail(a) ELSE a)
    ELSE a

\* The handle the call goes through: the module itself when it is a handle
\* (temp_module = module), else the first positional argument.
HandleOf(m, a) == IF IsVimObject(m) THEN m.id ELSE a[1].id

\* Variant: the second strike is never recognised.
TwoStrikeNever(lfl) == FALSE
\* Line 379: the previous NotAuthenticated of this invocation is remembered.
TwoStrike(lfl) == NotAuthenticated \in lfl

\* Variant: the overload clause forgets the remembered fault.
AfterOverLoadForgets(lfl) == {}
\* Lines 388-391: the overload clause only sets exc; last_fault_list stays.
AfterOverLoad(lfl) == lfl

\* Variants: the budget check off by one in either direction.
BudgetExhaustedAtLeast(rc, n) == rc >= n
BudgetExhaustedLate(rc, n) == rc > n + 1
\* Line 400: retry_count > self.api_retry_count.
BudgetExhausted(rc, n) == rc > n

\* Variant: a TerminateSession that raised ends _create_session.
TerminateFatalOnFailure(ok) == ~ok
\* Lines 311-317: the inner handler only logs; _create_session goes on.
TerminateFatal(ok) == FALSE

\* Variant: the prior token is never terminated.
ShouldTerminateNever(sid) == FALSE
\* Line 306: if self._session_id.
ShouldTerminate(sid) == sid # NoSession

Set(f, c, v) == [f EXCEPT ![c] = v]

\* ------------------------------------------------------------------ Init
InitCall ==
  /\ pc = [c \in Workers |-> "idle"]
  /\ module = [c \in Workers |-> UtilModule]
  /\ args = [c \in Workers |-> <<>>]
  /\ retry_count = [c \in Workers |-> 0]
  /\ last_fault_list = [c \in Workers |-> {}]
  /\ exc = [c \in Workers |-> None]
  /\ usedHandle = [c \in Workers |-> NoSession]
  /\ loginVia = [c \in Workers |-> NoSession]
  /\ session = [c \in Workers |-> NoSession]
  /\ termTarget = [c \in Workers |-> NoSession]
  /\ outcomes = [c \in Workers |-> <<>>]
  /\ relogins = [c \in Workers |-> 0]
  /\ result = [c \in Workers |-> None]
  /\ raised = [c \in Workers |-> None]

\* VMwareAPISession.__init__ has run: one handle, logged in, its token stored.
InitSession(ws) ==
  /\ workers = ws
  /\ api_retry_count \in 0..MaxRetry
  /\ vim = 1
  /\ session_id = 1
  /\ active = {1}
  /\ created = 1
  /\ failedTerms = 0
  /\ invokes = 0

\* What a poll's _call_method can hand to _poll_task: the task's info, the
\* empty list of the two-strike rule, or a raised fault.
Messages == {"disk full", "non-ASCII text"}
TaskStates == {"queued", "running", "success", "error"}
Info(s, m) == [kind |-> "info", state |-> s, v |-> m]
EmptyResult == [kind |-> "empty", state |-> "", v |-> ""]
Raises(f) == [kind |-> "raise", state |-> "", v |-> f]
TaskInfos ==
  {Info(s, "") : s \in TaskStates \ {"error"}}
    \cup {Info("error", m) : m \in Messages}
PollResults(t) ==
  {t} \cup {EmptyResult} \cup {Raises(f) : f \in {Overloaded, OtherError}}

\* The event done: unset, or sent a value, or sent an exception.
NotSent == [kind |-> "unset", v |-> ""]
SentValue(x) == [kind |-> "value", v |-> x]
SentException(x) == [kind |-> "exception", v |-> x]

\* Variant: only queued counts as still pending.
IsPendingQueuedOnly(st) == st = "queued"
\* Line 436: task_info.state in ['queued', 'running'].
IsPending(st) == st \in {"queued", "running"}

\* Line 443: str() of the localized message; Python 2's str() of a text that
\* is not ASCII raises UnicodeEncodeError.
IsAscii(m) == m = "disk full"
StrOf(m) == IF IsAscii(m) THEN m ELSE "UnicodeEncodeError"

\* Variant: a poll that sends only for a task that succeeded.
PollSendsOnSuccessOnly(r) ==
  IF r.kind = "info" /\ r.state = "success" THEN SentValue("success") ELSE NotSent
\* Lines 432-449: what one poll sends to done; NotSent when it sends nothing.
PollSends(r) ==
  IF r.kind = "raise" THEN SentException(r.v)
  ELSE IF r.kind = "empty" THEN SentException("AttributeError")
  ELSE IF IsPending(r.state) THEN NotSent
  ELSE IF r.state = "success" THEN SentValue("success")
  ELSE SentException(StrOf(r.v))

InitTaskIdle ==
  /\ taskPc = "off"
  /\ observed = <<>>
  /\ done = NotSent
  /\ running = FALSE
  /\ loopPc = "poll"
  /\ taskInfo = Info("queued", "")

\* ------------------------------------------------------ spawn: vocabulary
Names == {"vm-a", "vm-b"}          \* instance['name']
ImageRef == "image-1"              \* instance['image_ref']
Bridge == "br100"                  \* the network name of the one interface
InstancePathBase == "vmware_base"  \* self._instance_path_base
DiskTypes == {"preallocated", "thin", "sparse"}
Variants == {"nova", "package"}    \* src/vmops.py, src/pyvmwareapi/vmops.py

\* "%s/%s.vmdk", "%s/%s-flat.vmdk", "%s/%s-sparse.vmdk" % (folder, name).
Vmdk(folder, name, suffix) == [folder |-> folder, name |-> name, suffix |-> suffix]
NoPath == Vmdk("", "", "")

\* linked_clone: CONF.use_linked_clone; the package passes False.
LinkedClone(v, c) == v = "nova" /\ c.use_linked_clone
\* upload_folder and upload_name.
UploadFolder(v, c, name) == IF LinkedClone(v, c) THEN InstancePathBase ELSE name
\* Variant: the upload name is always the instance name.
UploadNameOfInstance(v, c, name) == name
UploadName(v, c, name) == IF LinkedClone(v, c) THEN ImageRef ELSE name
\* uploaded_vmdk_name, flat_uploaded_vmdk_name, sparse_uploaded_vmdk_name.
UploadedVmdk(v, c, name) == Vmdk(UploadFolder(v, c, name), UploadName(v, c, name), "")
FlatVmdk(v, c, name) == Vmdk(UploadFolder(v, c, name), UploadName(v, c, name), "-flat")
SparseVmdk(v, c, name) == Vmdk(UploadFolder(v, c, name), UploadName(v, c, name), "-sparse")

\* disk_type: the image's vmware_disktype; the package fixes "preallocated".
DiskTypeOf(v, dt) == IF v = "package" THEN "preallocated" ELSE dt
\* A sparse disk becomes "thin" before it is copied or attached.
AttachedType(dt) == IF dt = "sparse" THEN "thin" ELSE dt

\* Variant: the vlan bridge is ensured for every interface.
EnsuresVlanAlways(v, vlan) == TRUE
\* _get_vif_infos: the package always ensures the vlan bridge; src/vmops.py
\* does so for an interface whose network has should_create_vlan.
EnsuresVlan(v, vlan) == v = "package" \/ vlan

\* Variant: the datastore is probed whatever the configuration.
ProbesAlways(v, c) == TRUE
\* The probe _check_if_folder_file_exists is called by the package always,
\* by src/vmops.py only when linked_clone (the "and" short-circuits).
Probes(v, c) == v = "package" \/ c.use_linked_clone

\* The disk is provisioned: create (not sparse), or upload first (sparse);
\* the package never uploads.
ProvisionEntry(v, dt) ==
  IF dt # "sparse" THEN "create_disk" ELSE IF v = "nova" THEN "fetch" ELSE "copy"
\* Where spawn goes on after the shell VM: machine id, vnc config, disk.
DiskEntry(v, c, dt) == IF Probes(v, c) THEN "probe" ELSE ProvisionEntry(v, dt)
AfterMachineId(v, c, dt) == IF c.vnc_enabled THEN "vnc" ELSE DiskEntry(v, c, dt)
\* Variant: the VM is powered on right after it was created.
AfterCreateVMPowersOn(v, c, dt) == "poweron"
AfterCreateVM(v, c, dt) ==
  IF v = "package" THEN DiskEntry(v, c, dt)
  ELSE IF c.flat_injected THEN "machine_id" ELSE AfterMachineId(v, c, dt)
\* After _create_virtual_disk: src/vmops.py deletes the flat file and then
\* uploads the image; the package goes straight to attaching.
AfterCreateDisk(v) == IF v = "nova" THEN "delete_flat" ELSE "attach"

\* The jobs (methods ending in _Task) and the plain calls spawn makes.
NoTask ==
  [n |-> 0, op |-> "", vm |-> "", path |-> NoPath, state |-> "none", msg |-> ""]
Job(n, op, vm, path) ==
  [n |-> n, op |-> op, vm |-> vm, path |-> path, state |-> "queued", msg |-> ""]
\* What spawn raised: where, which kind of exception, and its message.
NoFault == [phase |-> "", kind |-> "", message |-> ""]
Fault(phase, kind) == [phase |-> phase, kind |-> kind, message |-> ""]
\* The NovaException _poll_task makes of a job in error: its message is
\* str() of the job's localizedMessage.
TaskFault(op, m) == [phase |-> op, kind |-> "TaskError", message |-> StrOf(m)]
\* One entry of the log of remote operations: busy tells whether a job of
\* the same spawn was still queued or running when the operation was issued.
Op(n, op, vm, path, dt, busy) ==
  [n |-> n, op |-> op, vm |-> vm, path |-> path, disk_type |-> dt, busy |-> busy]

Confs == [use_linked_clone : BOOLEAN, flat_injected : BOOLEAN, vnc_enabled : BOOLEAN]
PackageConf == [use_linked_clone |-> FALSE, flat_injected |-> FALSE, vnc_enabled |-> FALSE]
NoInstance == [name |-> ""]
NothingMade == [n \in Names |-> [vm |-> 0, disk |-> 0]]

InitSpawnIdle ==
  /\ instance = NoInstance
  /\ disk_type = ""
  /\ spPc = "idle"
  /\ spNext = ""
  /\ spTask = NoTask
  /\ spFault = NoFault
  /\ spawns = 0
  /\ ops = <<>>
  /\ made = NothingMade

\* A network reference as get_network_with_the_name builds it; NoRef is None.
NoRef == [type |-> "None", name |-> ""]
NetworkRef(name) == [type |-> "Network", name |-> name]

\* No caller is in ensure_vlan_bridge.
\* No request has raised.
NoExcep == [type |-> "", ascii |-> TRUE, find |-> <<-1, -1, -1>>,
            detail |-> [present |-> FALSE, types |-> <<>>]]
Unhandled == [class |-> "", fault_list |-> <<>>]
InitVimIdle ==
  /\ excep = NoExcep
  /\ handled = Unhandled

\* __del__ has not run.
InitDownIdle ==
  /\ torn = FALSE
  /\ logout = ""
  /\ delRaised = None

InitNetIdle ==
  /\ pnics = {"vmnic0"}
  /\ vswitch = "vSwitch0"
  /\ pgAdds = 0
  /\ netPc = [w \in Workers |-> "idle"]
  /\ network_ref = [w \in Workers |-> NoRef]
  /\ addResult = [w \in Workers |-> ""]
  /\ netRet = [w \in Workers |-> [set |-> FALSE, ref |-> NoRef]]
  /\ netRaised = [w \in Workers |-> ""]

\* --- VM lifecycle vocabulary
\* A VM of the endpoint: its reference (id), name, power state, the folder
\* holding its files, the unit number of its own disk, and the disks of
\* other VMs attached to it.
PowerStates == {"poweredOn", "poweredOff", "suspended"}
Disk(dir, unit) == [dir |-> dir, unit |-> unit]
NoDisk == Disk(0, 0)
Vm(id, name, power, unit) ==
  [id |-> id, name |-> name, power |-> power, dir |-> id, unit |-> unit,
   extra |-> {}]
\* The instance the lifecycle operations are called for.
InstanceName == "vm-a"
\* Variant: the label of the original is the instance's name itself.
OrigNameLabelSame(name) == name
\* _get_orig_vm_name_label and self._rescue_suffix.
OrigNameLabel(name) == name \o "-orig"
RescueName(name) == name \o "-rescue"

\* A job handed to the endpoint by lifecycle operation n.
NoLifeTask ==
  [n |-> 0, op |-> "", vm |-> 0, name |-> "", disk |-> NoDisk, state |-> "none"]
LifeJob(n, op, vm, name, disk) ==
  [n |-> n, op |-> op, vm |-> vm, name |-> name, disk |-> disk, state |-> "queued"]
\* An entry of the log of remote calls: the call, the VM reference and the
\* name or disk it was given, whether an earlier job was still pending when
\* it was made, and whether the call itself returned (ok) or raised.
Call(op, vm, name, disk, busy, ok) ==
  [op |-> op, vm |-> vm, name |-> name, disk |-> disk, busy |-> busy, ok |-> ok]
\* How an operation ended.
NotEnded == [kind |-> "none", what |-> ""]
Returned == [kind |-> "returned", what |-> ""]
Raised(what) == [kind |-> "raised", what |-> what]

\* No lifecycle operation is looked at.
InitLifeIdle ==
  /\ hvms = {}
  /\ hdirs = {}
  /\ nextId = 1
  /\ lop = ""
  /\ lpc = "idle"
  /\ lname = ""
  /\ lentry = ""
  /\ vm_ref = 0
  /\ destroy_disks = TRUE
  /\ lnext = ""
  /\ lfail = ""
  /\ ltask = NoLifeTask
  /\ llog = <<>>
  /\ lres = NotEnded
  /\ lifeOps = 0
  /\ lprev = [op |-> "", res |-> NotEnded]

\* The host when no spawn is looked at.
InitVmIdle ==
  /\ variant = "nova"
  /\ conf = PackageConf
  /\ vmware_disktype = "preallocated"
  /\ should_create_vlan = FALSE
  /\ vms = {}
  /\ powered = {}
  /\ files = {}
  /\ folders = {}
  /\ networks = {}
  /\ InitSpawnIdle
  /\ InitDownIdle
  /\ InitVimIdle
  /\ InitNetIdle
  /\ InitLifeIdle

\* Files a datastore may hold before any spawn: nothing, the cached base
\* disk of the image, or the disk left behind by an earlier VM "vm-a".
InitialFiles ==
  {{}, {Vmdk(InstancePathBase, ImageRef, "")}, {Vmdk("vm-a", "vm-a", "")}}

InitSpawn ==
  /\ InitSession({"w1"})
  /\ api_retry_count = MaxRetry
  /\ InitCall
  /\ InitTaskIdle
  /\ variant \in Variants
  /\ conf \in IF variant = "package" THEN {PackageConf} ELSE Confs
  /\ vmware_disktype \in IF variant = "package" THEN {"preallocated"} ELSE DiskTypes
  /\ should_create_vlan \in IF variant = "package" THEN {TRUE} ELSE BOOLEAN
  /\ vms = {}
  /\ powered = {}
  /\ files \in InitialFiles
  /\ folders = {f.folder : f \in files}
  /\ networks \in {{}, {Bridge}}
  /\ InitSpawnIdle
  /\ InitDownIdle
  /\ InitVimIdle
  /\ InitNetIdle
  /\ InitLifeIdle

InitTaskOnly ==
  /\ InitSession({"w1"})
  /\ api_retry_count = MaxRetry
  /\ InitCall
  /\ InitTaskIdle
  /\ InitVmIdle

Init == InitSession({"w1"}) /\ InitCall /\ InitTaskIdle /\ InitVmIdle
InitShared == InitSession(Workers) /\ InitCall /\ InitTaskIdle /\ InitVmIdle

\* --------------------------------------------------------- _call_method
\* Lines 345-348: a worker enters _call_method; the caller passes either a
\* helper module or self._session._get_vim() (the handle current at the call).
InvokeStart(c) ==
  /\ pc[c] \in {"idle", "done"}
  /\ invokes < MaxInvokes
  /\ invokes' = invokes + 1
  /\ \E isVim \in BOOLEAN :
       module' = Set(module, c, IF isVim THEN VimArg(vim) ELSE UtilModule)
  /\ args' = Set(args, c, <<PlainArg>>)
  /\ retry_count' = Set(retry_count, c, 0)
  /\ exc' = Set(exc, c, None)
  /\ last_fault_list' = Set(last_fault_list, c, {})
  /\ usedHandle' = Set(usedHandle, c, NoSession)
  /\ outcomes' = Set(outcomes, c, <<>>)
  /\ relogins' = Set(relogins, c, 0)
  /\ result' = Set(result, c, None)
  /\ raised' = Set(raised, c, None)
  /\ pc' = Set(pc, c, "try")
  /\ UNCHANGED <<workers, api_retry_count, vim, session_id, active, created,
                 failedTerms, loginVia, session, termTarget>>
  /\ UNCHANGED <<taskVars, vmVars>>

\* Lines 351-363: one try is prepared and sent.
Attempt(c) ==
  /\ pc[c] = "try"
  /\ LET a == ReattachArgs(module[c], retry_count[c], args[c], vim)
     IN /\ args' = Set(args, c, a)
        /\ usedHandle' = Set(usedHandle, c, HandleOf(module[c], a))
  /\ retry_count' = Set(retry_count, c, retry_count[c] + 1)
  /\ pc' = Set(pc, c, "call")
  /\ UNCHANGED <<sessVars, module, last_fault_list, exc, loginVia, session,
                 termTarget, outcomes, relogins, result, raised>>
  /\ UNCHANGED <<taskVars, vmVars>>

\* Lines 398-406: the budget check after a handled fault; the bare raise
\* re-raises the exception caught last, which is exc.
AfterHandler(c, e) ==
  IF BudgetExhausted(retry_count[c], api_retry_count)
    THEN /\ raised' = Set(raised, c, e)
         /\ pc' = Set(pc, c, "done")
    ELSE /\ raised' = raised
         /\ pc' = Set(pc, c, "try")

\* Lines 363-397: the try's answer arrives and its except clause runs.
Respond(c) ==
  /\ pc[c] = "call"
  /\ \E o \in Outcomes :
       /\ outcomes' = Set(outcomes, c, Append(outcomes[c], o))
       /\ IF o = Ok
            THEN /\ result' = Set(result, c, Value)
                 /\ pc' = Set(pc, c, "done")
                 /\ UNCHANGED <<exc, last_fault_list, relogins, raised>>
          ELSE IF IsVimFault(o)
            THEN /\ exc' = Set(exc, c, o)
                 /\ IF NotAuthenticated \in FaultList(o)
                      THEN IF TwoStrike(last_fault_list[c])
                             THEN /\ result' = Set(result, c, Empty)
                                  /\ pc' = Set(pc, c, "done")
                                  /\ UNCHANGED <<last_fault_list, relogins, raised>>
                             ELSE /\ last_fault_list' = Set(last_fault_list, c, FaultList(o))
                                  /\ relogins' = Set(relogins, c, relogins[c] + 1)
                                  /\ pc' = Set(pc, c, "newvim")
                                  /\ UNCHANGED <<result, raised>>
                      ELSE /\ raised' = Set(raised, c, o)
                           /\ pc' = Set(pc, c, "done")
                           /\ UNCHANGED <<last_fault_list, relogins, result>>
          ELSE IF IsSessionOverLoad(o)
            THEN /\ exc' = Set(exc, c, o)
                 /\ AfterHandler(c, o)
                 /\ last_fault_list' =
                      Set(last_fault_list, c, AfterOverLoad(last_fault_list[c]))
                 /\ UNCHANGED <<relogins, result>>
          ELSE /\ exc' = Set(exc, c, o)
               /\ raised' = Set(raised, c, o)
               /\ pc' = Set(pc, c, "done")
               /\ UNCHANGED <<last_fault_list, relogins, result>>
  /\ UNCHANGED <<sessVars, module, args, retry_count, usedHandle, loginVia,
                 session, termTarget>>
  /\ UNCHANGED <<taskVars, vmVars>>

\* ------------------------------------------------------ _create_session
\* Variant: a failed relogin is handled like an overload, by the next try.
LoginRaisesRetries(c) ==
  /\ raised' = raised
  /\ pc' = Set(pc, c, "try")
\* Line 323: any failure inside _create_session leaves _call_method as a
\* NovaException, from inside the except clause.
LoginRaises(c) ==
  /\ raised' = Set(raised, c, LoginFailed)
  /\ pc' = Set(pc, c, "done")

\* Lines 298-302: the new handle is built (vim.Vim() talks to the endpoint
\* and may fail before self.vim is assigned), stored, and Login is sent
\* through it.
CreateVim(c) ==
  /\ pc[c] = "newvim"
  /\ \/ /\ LoginRaises(c)
        /\ UNCHANGED <<vim, created, loginVia>>
     \/ /\ created' = created + 1
        /\ vim' = created + 1
        /\ loginVia' = Set(loginVia, c, created + 1)
        /\ pc' = Set(pc, c, "login")
        /\ raised' = raised
  /\ UNCHANGED <<workers, api_retry_count, session_id, active, failedTerms, invokes,
                 module, args, retry_count, last_fault_list, exc, usedHandle,
                 session, termTarget, outcomes, relogins, result>>
  /\ UNCHANGED <<taskVars, vmVars>>

\* Lines 299-310: Login answers.  A successful login is alive at the
\* endpoint; when a token is stored, TerminateSession is sent for it.
LoginReturn(c) ==
  /\ pc[c] = "login"
  /\ \/ /\ LoginRaises(c)
        /\ UNCHANGED <<active, session, termTarget, session_id>>
     \/ /\ active' = active \cup {loginVia[c]}
        /\ session' = Set(session, c, loginVia[c])
        /\ IF ShouldTerminate(session_id)
             THEN /\ termTarget' = Set(termTarget, c, session_id)
                  /\ pc' = Set(pc, c, "terminate")
                  /\ UNCHANGED <<session_id, raised>>
             ELSE /\ session_id' = loginVia[c]
                  /\ AfterHandler(c, exc[c])
                  /\ UNCHANGED termTarget
  /\ UNCHANGED <<workers, api_retry_count, vim, created, failedTerms, invokes,
                 module, args, retry_count, last_fault_list, exc, usedHandle,
                 loginVia, outcomes, relogins, result>>
  /\ UNCHANGED <<taskVars, vmVars>>

\* Lines 307-319: TerminateSession answers; a failure is logged and
\* swallowed.  Then the new token is stored and _call_method goes on.
TerminateReturn(c) ==
  /\ pc[c] = "terminate"
  /\ \E ok \in BOOLEAN :
       /\ ok => termTarget[c] \in active
       /\ active' = IF ok THEN active \ {termTarget[c]} ELSE active
       /\ failedTerms' = IF ok THEN failedTerms ELSE failedTerms + 1
       /\ IF TerminateFatal(ok)
            THEN LoginRaises(c) /\ UNCHANGED session_id
            ELSE session_id' = session[c] /\ AfterHandler(c, exc[c])
  /\ UNCHANGED <<workers, api_retry_count, vim, created, invokes,
                 module, args, retry_count, last_fault_list, exc, usedHandle,
                 loginVia, session, termTarget, outcomes, relogins, result>>
  /\ UNCHANGED <<taskVars, vmVars>>

\* The endpoint drops a login (idle timeout, administrator).
EndpointExpire ==
  /\ \E t \in active : active' = active \ {t}
  /\ UNCHANGED <<workers, api_retry_count, vim, session_id, created, failedTerms,
                 invokes>>
  /\ UNCHANGED callVars
  /\ UNCHANGED <<taskVars, vmVars>>

Next ==
  \/ \E c \in workers : InvokeStart(c)
  \/ \E c \in workers : Attempt(c)
  \/ \E c \in workers : Respond(c)
  \/ \E c \in workers : CreateVim(c)
  \/ \E c \in workers : LoginReturn(c)
  \/ \E c \in workers : TerminateReturn(c)
  \/ EndpointExpire

Spec == Init /\ [][Next]_vars
SpecShared == InitShared /\ [][Next]_vars

\* ------------------------------------------------ _wait_for_task, _poll_task
\* Lines 419-423: the event is made, the looping call started, and the
\* caller blocks in done.wait().
WaitForTask ==
  /\ taskPc = "off"
  /\ done' = NotSent
  /\ observed' = <<>>
  /\ running' = TRUE
  /\ loopPc' = "poll"
  /\ taskPc' = "waiting"
  /\ taskInfo' \in TaskInfos
  /\ UNCHANGED <<sessVars, callVars, vmVars>>

\* Lines 427-449, run by the looping call: one poll.  Sending to an event
\* that was sent already raises inside _poll_task, out of its except clause,
\* which ends the looping call.
PollTask ==
  /\ running
  /\ loopPc = "poll"
  /\ Len(observed) < MaxPolls
  /\ \E r \in PollResults(taskInfo) :
       /\ observed' = Append(observed, r)
       /\ IF PollSends(r) = NotSent
            THEN /\ loopPc' = "sleep"
                 /\ UNCHANGED <<done, running>>
            ELSE IF done = NotSent
              THEN /\ done' = PollSends(r)
                   /\ loopPc' = "sleep"
                   /\ UNCHANGED running
              ELSE /\ running' = FALSE
                   /\ UNCHANGED <<done, loopPc>>
  /\ UNCHANGED <<taskPc, taskInfo>>
  /\ UNCHANGED <<sessVars, callVars, vmVars>>

\* The looping call sleeps the poll interval between polls; a waiter that
\* done has woken runs before that sleep ends.
LoopWake ==
  /\ running
  /\ loopPc = "sleep"
  /\ (taskPc = "waiting" => done = NotSent)
  /\ loopPc' = "poll"
  /\ UNCHANGED <<taskPc, observed, done, running, taskInfo>>
  /\ UNCHANGED <<sessVars, callVars, vmVars>>

\* Lines 423-425: done.wait() returns the value sent, then loop.stop() and
\* return; or it raises the exception sent, and loop.stop() is not reached.
WaitReturn ==
  /\ taskPc = "waiting"
  /\ done # NotSent
  /\ IF done.kind = "value"
       THEN /\ running' = FALSE
            /\ taskPc' = "returned"
       ELSE /\ running' = running
            /\ taskPc' = "failed"
  /\ UNCHANGED <<observed, done, loopPc, taskInfo>>
  /\ UNCHANGED <<sessVars, callVars, vmVars>>

\* The endpoint runs the task: a queued task starts running, a queued or
\* running task ends in success or in error with a localized message; a
\* task that has ended stays as it is.  Nothing obliges the endpoint to move.
TaskProgress ==
  /\ taskPc = "waiting"
  /\ IsPending(taskInfo.state)
  /\ \E t \in TaskInfos :
       /\ t.state # "queued"
       /\ t.state # taskInfo.state
       /\ taskInfo' = t
  /\ UNCHANGED <<taskPc, observed, done, running, loopPc>>
  /\ UNCHANGED <<sessVars, callVars, vmVars>>

NextTask ==
  \/ WaitForTask
  \/ PollTask
  \/ LoopWake
  \/ WaitReturn
  \/ TaskProgress

SpecTask == InitTaskOnly /\ [][NextTask]_vars

\* The eventlet hub runs every greenthread that is ready: the looping call's
\* timer fires, its poll runs, and a waiter woken by done returns.  The
\* endpoint is under no such obligation.
SpecTaskFair ==
  /\ InitTaskOnly
  /\ [][NextTask]_vars
  /\ WF_vars(PollTask)
  /\ WF_vars(LoopWake)
  /\ WF_vars(WaitReturn)

\* ------------------------------------------------------------------ spawn
\* A job of this spawn is still queued or running.
Busy == spTask.state \in {"queued", "running"} /\ spTask.n = spawns
\* Variant: a wait that returns whatever the state of the job.
WaitOverAtOnce(st) == TRUE
\* _wait_for_task and the loop of _path_file_exists go on while the job is
\* queued or running.
WaitOver(st) == st \in {"success", "error"}

\* Variant: the name lookup never finds a VM.
ExistsNever(name, registered) == FALSE
\* vm_util.get_vm_ref_from_name gives a reference exactly for a registered VM.
Exists(name, registered) == name \in registered
\* Variant: a failed job is passed over and spawn goes on.
AwaitOutcomeSwallows(st, next) == next
\* _wait_for_task raises for a job in error; spawn has no handler, so it
\* ends there; otherwise it goes on with the next statement.
AwaitOutcome(st, next) == IF st = "error" THEN "failed" ELSE next

\* The places of spawn where the next statement is a remote call.
CallPhases ==
  {"check", "net", "create", "machine_id", "vnc", "probe", "mkdir",
   "create_disk", "delete_flat", "fetch", "copy", "delete_sparse",
   "attach", "poweron"}

\* A job is handed to the endpoint and spawn waits for it.
Issue(op, path, dt, next) ==
  /\ ops' = Append(ops, Op(spawns, op, instance.name, path, dt, Busy))
  /\ spTask' = Job(spawns, op, instance.name, path)
  /\ spPc' = "wait"
  /\ spNext' = next

\* spawn is called for an instance name.
SpawnStart(n) ==
  /\ spPc \in {"idle", "returned", "failed"}
  /\ spawns < MaxSpawns
  /\ spawns' = spawns + 1
  /\ instance' = [name |-> n]
  /\ disk_type' = ""
  /\ spPc' = "check"
  /\ spNext' = ""
  /\ spFault' = NoFault
  /\ ops' = <<>>
  /\ UNCHANGED <<spTask, made>>
  /\ UNCHANGED <<sessVars, callVars, taskVars, restVars, confVars, hostVars>>

\* The name is looked up; an existing VM makes spawn raise.  Otherwise the
\* image properties give the local disk_type.
CheckNotExists ==
  /\ spPc = "check"
  /\ ops' = Append(ops, Op(spawns, "get_vm_ref_from_name", instance.name,
                           NoPath, disk_type, Busy))
  /\ IF Exists(instance.name, vms)
       THEN /\ spPc' = "failed"
            /\ spFault' = Fault("check", "InstanceExists")
            /\ UNCHANGED disk_type
       ELSE /\ spPc' = "net"
            /\ disk_type' = DiskTypeOf(variant, vmware_disktype)
            /\ UNCHANGED spFault
  /\ UNCHANGED <<instance, spNext, spTask, spawns, made>>
  /\ UNCHANGED <<sessVars, callVars, taskVars, restVars, confVars, hostVars>>

\* _get_vif_infos for the one interface: ensure_vlan_bridge adds the port
\* group when the network is absent; _check_if_network_bridge_exists raises
\* when it is absent.
ResolveNetworkInterfaces ==
  /\ spPc = "net"
  /\ IF EnsuresVlan(variant, should_create_vlan)
       THEN /\ spPc' = "create"
            /\ UNCHANGED spFault
            /\ IF Bridge \in networks
                 THEN UNCHANGED <<ops, networks>>
                 ELSE /\ ops' = Append(ops, Op(spawns, "AddPortGroup",
                                   instance.name, NoPath, disk_type, Busy))
                      /\ networks' = networks \cup {Bridge}
       ELSE /\ UNCHANGED <<ops, networks>>
            /\ IF Bridge \in networks
                 THEN spPc' = "create" /\ UNCHANGED spFault
                 ELSE /\ spPc' = "failed"
                      /\ spFault' = Fault("net", "NetworkNotFoundForBridge")
  /\ UNCHANGED <<instance, disk_type, spNext, spTask, spawns, made>>
  /\ UNCHANGED <<vms, powered, files, folders>>
  /\ UNCHANGED <<sessVars, callVars, taskVars, restVars, confVars>>

\* _execute_create_vm: CreateVM_Task, then _wait_for_task.
CreateShellVM ==
  /\ spPc = "create"
  /\ Issue("CreateVM_Task", NoPath, disk_type,
           AfterCreateVM(variant, conf, disk_type))
  /\ UNCHANGED <<instance, disk_type, spFault, spawns, made>>
  /\ UNCHANGED <<sessVars, callVars, taskVars, restVars, confVars, hostVars>>

\* _set_machine_id (CONF.flat_injected): ReconfigVM_Task, then the wait.
SetMachineId ==
  /\ spPc = "machine_id"
  /\ Issue("ReconfigVM_Task machine_id", NoPath, disk_type,
           AfterMachineId(variant, conf, disk_type))
  /\ UNCHANGED <<instance, disk_type, spFault, spawns, made>>
  /\ UNCHANGED <<sessVars, callVars, taskVars, restVars, confVars, hostVars>>

\* _set_vnc_config (CONF.vnc_enabled): ReconfigVM_Task, then the wait.
SetVncConfig ==
  /\ spPc = "vnc"
  /\ Issue("ReconfigVM_Task vnc", NoPath, disk_type,
           DiskEntry(variant, conf, disk_type))
  /\ UNCHANGED <<instance, disk_type, spFault, spawns, made>>
  /\ UNCHANGED <<sessVars, callVars, taskVars, restVars, confVars, hostVars>>

\* _check_if_folder_file_exists: SearchDatastore_Task for the vmdk in the
\* upload folder; _path_file_exists polls it in a loop of its own.
ProbeDatastore ==
  /\ spPc = "probe"
  /\ Issue("SearchDatastore_Task", UploadedVmdk(variant, conf, instance.name),
           disk_type, "probed")
  /\ UNCHANGED <<instance, disk_type, spFault, spawns, made>>
  /\ UNCHANGED <<sessVars, callVars, taskVars, restVars, confVars, hostVars>>

\* The search has ended.  In error: the folder does not exist and is made.
\* Otherwise the file is there (spawn goes to attach, a sparse type becoming
\* thin) or it is not (the disk is provisioned).
ProbeReturn ==
  /\ spPc = "wait"
  /\ spTask.op = "SearchDatastore_Task"
  /\ WaitOver(spTask.state)
  /\ IF spTask.state = "error"
       THEN spPc' = "mkdir" /\ UNCHANGED disk_type
       ELSE IF spTask.path \in files
         THEN spPc' = "attach" /\ disk_type' = AttachedType(disk_type)
         ELSE spPc' = ProvisionEntry(variant, disk_type) /\ UNCHANGED disk_type
  /\ spNext' = ""
  /\ UNCHANGED <<instance, spTask, spFault, spawns, ops, made>>
  /\ UNCHANGED <<sessVars, callVars, taskVars, restVars, confVars, hostVars>>

\* _mkdir: MakeDirectory for the missing upload folder.
MakeDirectory ==
  /\ spPc = "mkdir"
  /\ ops' = Append(ops, Op(spawns, "MakeDirectory", instance.name,
                           UploadedVmdk(variant, conf, instance.name),
                           disk_type, Busy))
  /\ folders' = folders \cup {UploadFolder(variant, conf, instance.name)}
  /\ spPc' = ProvisionEntry(variant, disk_type)
  /\ UNCHANGED <<instance, disk_type, spNext, spTask, spFault, spawns, made>>
  /\ UNCHANGED <<vms, powered, files, networks>>
  /\ UNCHANGED <<sessVars, callVars, taskVars, restVars, confVars>>

\* _create_virtual_disk: CreateVirtualDisk_Task at uploaded_vmdk_path.
CreateVirtualDisk ==
  /\ spPc = "create_disk"
  /\ Issue("CreateVirtualDisk_Task", UploadedVmdk(variant, conf, instance.name),
           disk_type, AfterCreateDisk(variant))
  /\ UNCHANGED <<instance, disk_type, spFault, spawns, made>>
  /\ UNCHANGED <<sessVars, callVars, taskVars, restVars, confVars, hostVars>>

\* _delete_disk_file: DeleteDatastoreFile_Task of the flat file (before the
\* upload) or of the sparse file (after the copy).
DeleteDiskFile ==
  /\ spPc \in {"delete_flat", "delete_sparse"}
  /\ IF spPc = "delete_flat"
       THEN Issue("DeleteDatastoreFile_Task",
                  FlatVmdk(variant, conf, instance.name), disk_type, "fetch")
       ELSE Issue("DeleteDatastoreFile_Task",
                  SparseVmdk(variant, conf, instance.name), disk_type, "attach")
  /\ UNCHANGED <<instance, disk_type, spFault, spawns, made>>
  /\ UNCHANGED <<sessVars, callVars, taskVars, restVars, confVars, hostVars>>

\* _fetch_image_on_esx_datastore: the image is uploaded over HTTP (no job)
\* to the sparse file for a sparse disk, to the flat file otherwise.
FetchImage ==
  /\ spPc = "fetch"
  /\ LET target == IF disk_type = "sparse"
                     THEN SparseVmdk(variant, conf, instance.name)
                     ELSE FlatVmdk(variant, conf, instance.name)
     IN /\ ops' = Append(ops, Op(spawns, "fetch_image", instance.name, target,
                                 disk_type, Busy))
        /\ files' = files \cup {target}
  /\ spPc' = IF disk_type = "sparse" THEN "copy" ELSE "attach"
  /\ UNCHANGED <<instance, disk_type, spNext, spTask, spFault, spawns, made>>
  /\ UNCHANGED <<vms, powered, folders, networks>>
  /\ UNCHANGED <<sessVars, callVars, taskVars, restVars, confVars>>

\* disk_type = "thin", then _copy_virtual_disk: CopyVirtualDisk_Task from the
\* sparse file to uploaded_vmdk_path.
CopyVirtualDisk ==
  /\ spPc = "copy"
  /\ disk_type' = AttachedType(disk_type)
  /\ Issue("CopyVirtualDisk_Task", UploadedVmdk(variant, conf, instance.name),
           AttachedType(disk_type),
           IF variant = "nova" THEN "delete_sparse" ELSE "attach")
  /\ UNCHANGED <<instance, spFault, spawns, made>>
  /\ UNCHANGED <<sessVars, callVars, taskVars, restVars, confVars, hostVars>>

\* attach_disk_to_vm: ReconfigVM_Task with the vmdk path and disk type.
AttachDisk ==
  /\ spPc = "attach"
  /\ Issue("ReconfigVM_Task attach", UploadedVmdk(variant, conf, instance.name),
           disk_type, "poweron")
  /\ UNCHANGED <<instance, disk_type, spFault, spawns, made>>
  /\ UNCHANGED <<sessVars, callVars, taskVars, restVars, confVars, hostVars>>

\* _power_on_vm: PowerOnVM_Task, then the wait; spawn returns after it.
PowerOn ==
  /\ spPc = "poweron"
  /\ Issue("PowerOnVM_Task", NoPath, disk_type, "returned")
  /\ UNCHANGED <<instance, disk_type, spFault, spawns, made>>
  /\ UNCHANGED <<sessVars, callVars, taskVars, restVars, confVars, hostVars>>

\* _wait_for_task returns for a job that succeeded and raises for one that
\* ended in error; nothing in spawn catches it.
SpawnAwait ==
  /\ spPc = "wait"
  /\ spTask.op # "SearchDatastore_Task"
  /\ WaitOver(spTask.state)
  /\ spPc' = AwaitOutcome(spTask.state, spNext)
  /\ spFault' = IF spPc' = "failed" THEN TaskFault(spTask.op, spTask.msg) ELSE spFault
  /\ spNext' = ""
  /\ UNCHANGED <<instance, disk_type, spTask, spawns, ops, made>>
  /\ UNCHANGED <<sessVars, callVars, taskVars, restVars, confVars, hostVars>>

\* A poll of the pending job raises (its _call_method failed): the wait
\* fails although the job may still be queued or running.
SpawnPollFails ==
  /\ spPc = "wait"
  /\ spPc' = "failed"
  /\ spFault' = Fault(spTask.op, "PollFailed")
  /\ spNext' = ""
  /\ UNCHANGED <<instance, disk_type, spTask, spawns, ops, made>>
  /\ UNCHANGED <<sessVars, callVars, taskVars, restVars, confVars, hostVars>>

\* The remote call spawn is about to make raises: spawn raises with it.
SpawnCallFails ==
  /\ spPc \in CallPhases
  /\ spPc' = "failed"
  /\ spFault' = Fault(spPc, "CallFailed")
  /\ spNext' = ""
  /\ UNCHANGED <<instance, disk_type, spTask, spawns, ops, made>>
  /\ UNCHANGED <<sessVars, callVars, taskVars, restVars, confVars, hostVars>>

\* The endpoint ends the job it was handed, with its effect on success.  A
\* search succeeds exactly when the folder exists; a disk cannot be created
\* over an existing file, nor a VM under a name already registered.
SpawnTaskEnds ==
  /\ spTask.state = "queued"
  /\ \E ok \in BOOLEAN, m \in Messages :
       /\ spTask.op = "SearchDatastore_Task"
            => (m = "disk full" /\ (ok <=> spTask.path.folder \in folders))
       /\ ok => m = "disk full"
       /\ spTask.op = "CreateVirtualDisk_Task" => (ok => spTask.path \notin files)
       /\ spTask.op = "CreateVM_Task" => (ok => spTask.vm \notin vms)
       /\ spTask' = [spTask EXCEPT !.state = IF ok THEN "success" ELSE "error",
                                   !.msg = IF ok THEN "" ELSE m]
       /\ vms' = IF ok /\ spTask.op = "CreateVM_Task" THEN vms \cup {spTask.vm} ELSE vms
       /\ folders' = IF ok /\ spTask.op = "CreateVM_Task"
                       THEN folders \cup {spTask.vm} ELSE folders
       /\ powered' = IF ok /\ spTask.op = "PowerOnVM_Task"
                       THEN powered \cup {spTask.vm} ELSE powered
       /\ files' =
            IF ~ok THEN files
            ELSE IF spTask.op = "CreateVirtualDisk_Task"
              THEN files \cup {spTask.path, [spTask.path EXCEPT !.suffix = "-flat"]}
            ELSE IF spTask.op = "CopyVirtualDisk_Task"
              THEN files \cup {spTask.path}
            ELSE IF spTask.op = "DeleteDatastoreFile_Task"
              THEN files \ {spTask.path}
            ELSE files
       /\ made' =
            IF ok /\ spTask.op = "CreateVM_Task"
              THEN [made EXCEPT ![spTask.vm].vm = @ + 1]
            ELSE IF ok /\ spTask.op \in {"CreateVirtualDisk_Task", "CopyVirtualDisk_Task"}
              THEN [made EXCEPT ![spTask.vm].disk = @ + 1]
            ELSE made
  /\ UNCHANGED networks
  /\ UNCHANGED <<instance, disk_type, spPc, spNext, spFault, spawns, ops>>
  /\ UNCHANGED <<sessVars, callVars, taskVars, restVars, confVars>>

NextSpawn ==
  \/ \E n \in Names : SpawnStart(n)
  \/ CheckNotExists
  \/ ResolveNetworkInterfaces
  \/ CreateShellVM
  \/ SetMachineId
  \/ SetVncConfig
  \/ ProbeDatastore
  \/ ProbeReturn
  \/ MakeDirectory
  \/ CreateVirtualDisk
  \/ DeleteDiskFile
  \/ FetchImage
  \/ CopyVirtualDisk
  \/ AttachDisk
  \/ PowerOn
  \/ SpawnAwait
  \/ SpawnPollFails
  \/ SpawnCallFails
  \/ SpawnTaskEnds

SpecSpawn == InitSpawn /\ [][NextSpawn]_vars

\* ------------------------------------------------- the port group resolver
\* ensure_vlan_bridge (src/vif.py) and create_port_group
\* (src/network_util.py), run by two callers at once for the one bridge.
\* Each remote call is one step, so the callers interleave between calls.

\* create_port_group ignores a VimFaultException whose fault list holds
\* AlreadyExists.
PortGroupSwallowsNone(o) == FALSE
PortGroupSwallows(o) == IsVimFault(o) /\ AlreadyExists \in FaultList(o)

\* What create_port_group raises for a failed AddPortGroup: NovaException
\* for a VimFaultException, the exception itself otherwise.
PortGroupRaises(o) == IF IsVimFault(o) THEN "NovaException" ELSE o

\* What AddPortGroup can produce through _call_method: the endpoint creates
\* the port group only when the name is free, and answers AlreadyExists only
\* when it is taken; any call may fail otherwise.
AddPortGroupOutcomes(nets) ==
  (IF Bridge \in nets THEN {AlreadyExists} ELSE {Ok}) \cup {InvalidArgument, OtherError}

\* ensure_vlan_bridge ends without a return statement: the caller gets None.
ReturnedRef(ref) == NoRef

NetUnchanged == UNCHANGED <<sessVars, callVars, taskVars, confVars, spawnVars,
                            vms, powered, files, folders, pnics, vswitch,
                            lhostVars, lifeVars, downVars, vimVars>>

\* _get_vif_infos calls ensure_vlan_bridge for the interface.
EnsureVlanBridge(w) ==
  /\ netPc[w] = "idle"
  /\ netPc' = [netPc EXCEPT ![w] = "check_if"]
  /\ UNCHANGED <<networks, pgAdds, network_ref, addResult, netRet, netRaised>>
  /\ NetUnchanged

\* check_if_vlan_interface_exists: vmnic0 must be on the host.
CheckIfVlanInterfaceExists(w) ==
  /\ netPc[w] = "check_if"
  /\ IF "vmnic0" \in pnics
       THEN /\ netPc' = [netPc EXCEPT ![w] = "vswitch"]
            /\ UNCHANGED netRaised
       ELSE /\ netPc' = [netPc EXCEPT ![w] = "raised"]
            /\ netRaised' = [netRaised EXCEPT ![w] = "Interface not found"]
  /\ UNCHANGED <<networks, pgAdds, network_ref, addResult, netRet>>
  /\ NetUnchanged

\* get_vswitch_for_vlan_interface: the adapter must belong to a vSwitch.
GetVswitchForVlanInterface(w) ==
  /\ netPc[w] = "vswitch"
  /\ IF vswitch = None
       THEN /\ netPc' = [netPc EXCEPT ![w] = "raised"]
            /\ netRaised' = [netRaised EXCEPT ![w] = "vSwitch not found"]
       ELSE /\ netPc' = [netPc EXCEPT ![w] = "lookup"]
            /\ UNCHANGED netRaised
  /\ UNCHANGED <<networks, pgAdds, network_ref, addResult, netRet>>
  /\ NetUnchanged

\* get_network_with_the_name: the network of that name, or None.
GetNetworkWithTheName(w) ==
  /\ netPc[w] = "lookup"
  /\ network_ref' = [network_ref EXCEPT
                       ![w] = IF Bridge \in networks THEN NetworkRef(Bridge) ELSE NoRef]
  /\ netPc' = [netPc EXCEPT ![w] = IF Bridge \in networks THEN "return" ELSE "add"]
  /\ UNCHANGED <<networks, pgAdds, addResult, netRet, netRaised>>
  /\ NetUnchanged

\* create_port_group: AddPortGroup through _call_method.
CreatePortGroup(w) ==
  /\ netPc[w] = "add"
  /\ \E o \in AddPortGroupOutcomes(networks) :
       /\ addResult' = [addResult EXCEPT ![w] = o]
       /\ IF o = Ok
            THEN /\ networks' = networks \cup {Bridge}
                 /\ pgAdds' = pgAdds + 1
            ELSE UNCHANGED <<networks, pgAdds>>
       /\ IF o = Ok \/ PortGroupSwallows(o)
            THEN /\ netPc' = [netPc EXCEPT ![w] = "return"]
                 /\ UNCHANGED netRaised
            ELSE /\ netPc' = [netPc EXCEPT ![w] = "raised"]
                 /\ netRaised' = [netRaised EXCEPT ![w] = PortGroupRaises(o)]
  /\ UNCHANGED <<network_ref, netRet>>
  /\ NetUnchanged

\* ensure_vlan_bridge returns and _get_vif_infos stores the value as the
\* interface's network_ref.
EnsureReturn(w) ==
  /\ netPc[w] = "return"
  /\ netPc' = [netPc EXCEPT ![w] = "done"]
  /\ netRet' = [netRet EXCEPT ![w] = [set |-> TRUE, ref |-> ReturnedRef(network_ref[w])]]
  /\ UNCHANGED <<networks, pgAdds, network_ref, addResult, netRaised>>
  /\ NetUnchanged

InitNet ==
  /\ InitSession({"w1"})
  /\ api_retry_count = MaxRetry
  /\ InitCall
  /\ InitTaskIdle
  /\ variant \in Variants
  /\ conf = PackageConf
  /\ vmware_disktype = "preallocated"
  /\ should_create_vlan = TRUE
  /\ vms = {}
  /\ powered = {}
  /\ files = {}
  /\ folders = {}
  /\ networks \in {{}, {Bridge}}
  /\ InitSpawnIdle
  /\ InitDownIdle
  /\ InitVimIdle
  /\ pnics \in {{}, {"vmnic0"}}
  /\ vswitch \in {None, "vSwitch0"}
  /\ pgAdds = 0
  /\ netPc = [w \in Workers |-> "idle"]
  /\ network_ref = [w \in Workers |-> NoRef]
  /\ addResult = [w \in Workers |-> ""]
  /\ netRet = [w \in Workers |-> [set |-> FALSE, ref |-> NoRef]]
  /\ netRaised = [w \in Workers |-> ""]
  /\ InitLifeIdle

NextNet ==
  \E w \in Workers :
    \/ EnsureVlanBridge(w)
    \/ CheckIfVlanInterfaceExists(w)
    \/ GetVswitchForVlanInterface(w)
    \/ GetNetworkWithTheName(w)
    \/ CreatePortGroup(w)
    \/ EnsureReturn(w)

SpecNet == InitNet /\ [][NextNet]_vars

\* ------------------------------------------------------- the VM lifecycle
\* destroy, rescue, unrescue, power_off, power_on, migrate_disk_and_power_off,
\* finish_migration, confirm_migration and finish_revert_migration of
\* src/vmops.py, and destroy of src/pyvmwareapi/vmops.py, called one after
\* the other for the one instance.  A remote call that only reads is part of
\* the step that uses what it read, since nothing else runs in between.

\* The VMs carrying a name; the endpoint keeps names unique.
VmNamed(name) == {v \in hvms : v.name = name}
\* vm_util.get_vm_ref_from_name: the reference, or None (0).
RefOfName(name) ==
  IF VmNamed(name) = {} THEN 0 ELSE (CHOOSE v \in VmNamed(name) : TRUE).id
Registered(id) == \E v \in hvms : v.id = id
VmOf(id) == CHOOSE v \in hvms : v.id = id

\* A job of the running operation is still pending.
LifeBusy == ltask.state = "queued" /\ ltask.n = lifeOps

\* The operations each version of vmops has.
LifeOpsOf(v) ==
  IF v = "package" THEN {"destroy"}
  ELSE {"destroy", "rescue", "unrescue", "migrate_disk_and_power_off",
        "finish_migration", "confirm_migration", "finish_revert_migration"}
\* Where each operation starts.
Entry(op) ==
  CASE op = "destroy" -> "d_lookup"
    [] op = "unrescue" -> "d_lookup"
    [] op = "rescue" -> "r_lookup"
    [] op = "migrate_disk_and_power_off" -> "m_lookup"
    [] op = "finish_migration" -> "on"
    [] op = "confirm_migration" -> "c_lookup"
    [] op = "finish_revert_migration" -> "v_lookup"

\* The operation goes on at label l.
Goto(l) == lpc' = l /\ lnext' = "" /\ lfail' = "" /\ UNCHANGED lres
\* The operation ends, returning or raising.
End(res) == lpc' = "idle" /\ lnext' = "" /\ lfail' = "" /\ lres' = res
\* Variant: the outer handler raises in both versions.
DestroyThrowRaises(what) == End(Raised(what))
\* An exception inside destroy reaches its outer handler: src/vmops.py logs
\* it and destroy returns; the package raises it again.
DestroyThrow(what) ==
  IF variant = "nova" THEN Goto("d_end") ELSE End(Raised(what))
\* Where control goes from a wait or a call: on with the next statement, to
\* the end of the operation, to the caller (raise), or to destroy's handler.
Jump(l, what) ==
  IF l = "raise" THEN End(Raised(what))
  ELSE IF l = "return" THEN End(Returned)
  ELSE IF l = "d_outer" THEN DestroyThrow(what)
  ELSE Goto(l)

\* A job is handed to the endpoint and the operation waits for it; reads
\* are the read-only calls made just before.
IssueJob(reads, op, vm, name, disk, next, fail) ==
  /\ llog' = llog \o reads \o <<Call(op, vm, name, disk, LifeBusy, TRUE)>>
  /\ ltask' = LifeJob(lifeOps, op, vm, name, disk)
  /\ lpc' = "wait"
  /\ lnext' = next
  /\ lfail' = fail
  /\ UNCHANGED lres
\* The remote call raises instead: nothing is handed over.
CallRaises(reads, op, vm, name, disk, fail) ==
  /\ llog' = llog \o reads \o <<Call(op, vm, name, disk, LifeBusy, FALSE)>>
  /\ UNCHANGED ltask
  /\ Jump(fail, "CallFailed")
\* A read-only call that returned.
Read(op, vm, name) == Call(op, vm, name, NoDisk, LifeBusy, TRUE)

LifeUnchanged == UNCHANGED <<sessVars, callVars, taskVars, confVars, hostVars,
                             spawnVars, netVars, downVars, vimVars>>

\* Variant: a failed power-off is logged and destroy goes on.
PowerOffFailedGoesOn == "d_unregister"
\* destroy's power-off and its wait stand in the outer try only: a failure
\* reaches the outer handler.
PowerOffFailed == "d_outer"
\* Variant: power_off lets a suspended VM pass as if it were off.
RefusesPowerOffNever(pwr_state) == FALSE
\* power_off raises InstancePowerOffFailure for a suspended VM.
RefusesPowerOff(pwr_state) == pwr_state = "suspended"

\* Variant: destroy goes on to the folder deletion without a VM too.
AfterDestroyLookupDeletes(ref) == IF ref = 0 THEN "d_delete" ELSE "d_poweroff"
\* destroy returns at once when the lookup found no VM.
AfterDestroyLookup(ref) == IF ref = 0 THEN "d_end" ELSE "d_poweroff"
\* Variant: a failed UnregisterVM ends destroy.
AfterUnregisterStops(ok) == IF ok THEN "d_delete" ELSE "d_end"
\* The handler around UnregisterVM logs the failure; destroy goes on.
AfterUnregister(ok) == "d_delete"
\* After destroy: unrescue powers the instance on, destroy itself is over.
AfterDestroy(op) == IF op = "unrescue" THEN "on" ELSE "return"
\* Variant: the disk keeps its unit number on the rescue VM.
RescueUnitNumberSame(unit_number) == unit_number
\* rescue attaches the disk one unit number above its place.
RescueUnitNumber(unit_number) == unit_number + 1

\* The names the record handed to an operation can carry: the instance's
\* name, in a record made for the call; for an unrescue that follows a
\* rescue also the name in the record that rescue was handed, as rescue
\* left it.
RequestNames(op) ==
  {InstanceName} \cup (IF op = "unrescue" /\ lop = "rescue" THEN {lname} ELSE {})

\* An operation is called for the instance with a record of one of these
\* names; unrescue puts the rescue suffix on it for its destroy.
LifeStart(op) ==
  /\ lpc = "idle"
  /\ lifeOps < MaxLifeOps
  /\ op \in LifeOpsOf(variant)
  /\ lifeOps' = lifeOps + 1
  /\ lop' = op
  /\ lentry' \in RequestNames(op)
  /\ lname' = IF op = "unrescue" THEN RescueName(lentry') ELSE lentry'
  /\ destroy_disks' \in IF op = "destroy" THEN BOOLEAN ELSE {TRUE}
  /\ vm_ref' = 0
  /\ llog' = <<>>
  /\ lres' = NotEnded
  /\ lpc' = Entry(op)
  /\ lprev' = [op |-> lop, res |-> lres]
  /\ UNCHANGED <<lnext, lfail, ltask, lhostVars>>
  /\ LifeUnchanged

\* destroy: the name is looked up; without a VM destroy returns.
DestroyLookup ==
  /\ lpc = "d_lookup"
  /\ \/ /\ llog' = Append(llog, Read("get_vm_ref_from_name", 0, lname))
        /\ vm_ref' = RefOfName(lname)
        /\ Goto(AfterDestroyLookup(RefOfName(lname)))
     \/ /\ llog' = Append(llog, Call("get_vm_ref_from_name", 0, lname, NoDisk,
                                     LifeBusy, FALSE))
        /\ UNCHANGED vm_ref
        /\ DestroyThrow("CallFailed")
  /\ UNCHANGED <<lop, lentry, lname, destroy_disks, ltask, lifeOps, lprev, lhostVars>>
  /\ LifeUnchanged

\* destroy: the power state and the path of the VM are read; a VM that is
\* powered on is powered off, and a failure there ends destroy.
DestroyPowerOff ==
  /\ lpc = "d_poweroff"
  /\ \/ /\ VmOf(vm_ref).power = "poweredOn"
        /\ IssueJob(<<Read("get_object_properties", vm_ref, "")>>,
                    "PowerOffVM_Task", vm_ref, "", NoDisk, "d_unregister",
                    PowerOffFailed)
     \/ /\ VmOf(vm_ref).power = "poweredOn"
        /\ CallRaises(<<Read("get_object_properties", vm_ref, "")>>,
                      "PowerOffVM_Task", vm_ref, "", NoDisk, PowerOffFailed)
     \/ /\ VmOf(vm_ref).power # "poweredOn"
        /\ llog' = Append(llog, Read("get_object_properties", vm_ref, ""))
        /\ UNCHANGED ltask
        /\ Goto("d_unregister")
     \/ CallRaises(<<>>, "get_object_properties", vm_ref, "", NoDisk, "d_outer")
  /\ UNCHANGED <<lop, lentry, lname, vm_ref, destroy_disks, lifeOps, lprev, lhostVars>>
  /\ LifeUnchanged

\* destroy: UnregisterVM; its failure is logged and destroy goes on.
DestroyUnregister ==
  /\ lpc = "d_unregister"
  /\ \E ok \in BOOLEAN :
       /\ ok => Registered(vm_ref)
       /\ llog' = Append(llog, Call("UnregisterVM", vm_ref, "", NoDisk, LifeBusy, ok))
       /\ hvms' = IF ok THEN hvms \ {VmOf(vm_ref)} ELSE hvms
       /\ Goto(AfterUnregister(ok))
  /\ UNCHANGED <<lop, lentry, lname, vm_ref, destroy_disks, ltask, lifeOps, lprev, hdirs, nextId>>
  /\ LifeUnchanged

\* destroy: with destroy_disks the folder of the VM is deleted and the job
\* awaited; a failure is logged.
DestroyDelete ==
  /\ lpc = "d_delete"
  /\ IF destroy_disks
       THEN \/ IssueJob(<<>>, "DeleteDatastoreFile_Task", 0, "", Disk(vm_ref, 0),
                        "d_end", "d_end")
            \/ CallRaises(<<>>, "DeleteDatastoreFile_Task", 0, "", Disk(vm_ref, 0),
                          "d_end")
       ELSE Goto("d_end") /\ UNCHANGED <<llog, ltask>>
  /\ UNCHANGED <<lop, lentry, lname, vm_ref, destroy_disks, lifeOps, lprev, lhostVars>>
  /\ LifeUnchanged

\* destroy returns: to its caller, or to unrescue, which restores the name
\* and powers the instance on.
DestroyEnd ==
  /\ lpc = "d_end"
  /\ lname' = IF lop = "unrescue" THEN lentry ELSE lname
  /\ Jump(AfterDestroy(lop), "")
  /\ UNCHANGED <<lop, lentry, vm_ref, destroy_disks, ltask, llog, lifeOps, lprev, lhostVars>>
  /\ LifeUnchanged

\* ======================================================== properties
Finished(c) == pc[c] = "done"
Attempts(c) == Len(outcomes[c])
LastOutcome(c) == outcomes[c][Len(outcomes[c])]
AllOverloaded(c) ==
  /\ Attempts(c) > 0
  /\ \A i \in 1..Attempts(c) : outcomes[c][i] = Overloaded
Fatal(o) == o \in {AlreadyExists, InvalidArgument, OtherError}
Transient(o) == o \in {NotAuthenticated, Overloaded}
InFlight == {c \in workers : pc[c] \in {"newvim", "login", "terminate"}}

\* C1 (as stated): an invocation whose every attempt fails Overloaded makes
\* exactly api_retry_count attempts and raises Overloaded.
C1_ExactlyBudgetAttempts ==
  \A c \in workers :
    (api_retry_count >= 1 /\ Finished(c) /\ AllOverloaded(c))
      => (Attempts(c) = api_retry_count /\ raised[c] = Overloaded)

\* C1 (amended): an invocation whose every attempt fails Overloaded ends
\* exactly when it has made api_retry_count + 1 attempts, and then raises the
\* Overloaded fault of the last attempt and returns nothing.
C1_ExactlyBudgetPlusOneAttempts ==
  \A c \in workers :
    AllOverloaded(c) =>
      /\ Finished(c) <=> (Attempts(c) = api_retry_count + 1)
      /\ Attempts(c) <= api_retry_count + 1
      /\ Finished(c) => (raised[c] = Overloaded /\ result[c] = None)

\* C1 witness: with api_retry_count = 2, three Overloaded attempts, then Overloaded raised.
C1_Witness ==
  \E c \in workers :
    /\ Finished(c) /\ AllOverloaded(c)
    /\ api_retry_count = 2 /\ Attempts(c) = 3 /\ raised[c] = Overloaded

\* C2: when an attempt fails NotAuthenticated, the session is recreated, and
\* the very next attempt fails NotAuthenticated again, the invocation ends
\* there returning the empty collection: nothing raised, one relogin only, no
\* further attempt.
C2_SecondNotAuthReturnsEmpty ==
  \A c \in workers :
    \A i \in 1..Attempts(c) :
      (i > 1 /\ outcomes[c][i - 1] = NotAuthenticated
             /\ outcomes[c][i] = NotAuthenticated)
        => /\ Finished(c)
           /\ result[c] = Empty
           /\ raised[c] = None
           /\ relogins[c] = 1
           /\ Attempts(c) = i

\* C2 witness: NotAuthenticated, a successful relogin, NotAuthenticated again, [] returned.
C2_Witness ==
  \E c \in workers :
    /\ Finished(c) /\ Attempts(c) = 2
    /\ outcomes[c] = <<NotAuthenticated, NotAuthenticated>>
    /\ result[c] = Empty /\ session_id = session[c] /\ session[c] \in active

\* C3 (as stated): the empty result is returned only when NotAuthenticated
\* recurs on the attempt right after the one that triggered the relogin.
C3_EmptyOnlyWhenAdjacent ==
  \A c \in workers :
    result[c] = Empty =>
      /\ Attempts(c) >= 2
      /\ outcomes[c][Attempts(c)] = NotAuthenticated
      /\ outcomes[c][Attempts(c) - 1] = NotAuthenticated

\* C4 (as stated): an invocation whose attempts fail with any mix of
\* NotAuthenticated and Overloaded makes at most api_retry_count attempts,
\* and a fault it raises is the fault of its last attempt.
C4_AtMostBudgetAttempts ==
  \A c \in workers :
    (api_retry_count >= 1
       /\ \A i \in 1..Attempts(c) : Transient(outcomes[c][i]))
      => /\ Attempts(c) <= api_retry_count
         /\ (Finished(c) /\ raised[c] \notin {None, LoginFailed})
              => raised[c] = LastOutcome(c)

\* C4 (amended): whatever NotAuthenticated/Overloaded outcomes occur, an
\* invocation makes at most api_retry_count + 1 attempts (both fault kinds
\* use the one counter); a transient fault is raised only when that many
\* attempts were made, and a raised fault of the call is the fault of the
\* last attempt.
C4_AtMostBudgetPlusOneAttempts ==
  \A c \in workers :
    /\ Attempts(c) <= api_retry_count + 1
    /\ retry_count[c] <= api_retry_count + 1
    /\ (Finished(c) /\ Transient(raised[c]))
         => (Attempts(c) = api_retry_count + 1 /\ raised[c] = LastOutcome(c))
    /\ (Finished(c) /\ raised[c] \notin {None, LoginFailed})
         => raised[c] = LastOutcome(c)

\* C4 witness: with api_retry_count = 1, Overloaded then NotAuthenticated uses the attempts up and NotAuthenticated is raised.
C4_Witness ==
  \E c \in workers :
    /\ Finished(c) /\ api_retry_count = 1
    /\ outcomes[c] = <<Overloaded, NotAuthenticated>>
    /\ raised[c] = NotAuthenticated

\* C5: transient faults stay inside the session layer: an attempt that
\* succeeds ends the invocation with that attempt's result and nothing
\* raised, and a NotAuthenticated or Overloaded fault reaches the caller only
\* once the attempts are used up.
C5_SuccessAfterTransientFaults ==
  \A c \in workers :
    /\ (Attempts(c) > 0 /\ LastOutcome(c) = Ok)
         => (Finished(c) /\ result[c] = Value /\ raised[c] = None)
    /\ (Finished(c) /\ Transient(raised[c]))
         => Attempts(c) > api_retry_count
    /\ \A i \in 1..Attempts(c) :
         (i < Attempts(c)) => Transient(outcomes[c][i])

\* C5 witness: Overloaded, NotAuthenticated, then a success whose value is returned.
C5_Witness ==
  \E c \in workers :
    /\ Finished(c) /\ result[c] = Value /\ raised[c] = None
    /\ outcomes[c] = <<Overloaded, NotAuthenticated, Ok>>

\* C6: a fault that is neither NotAuthenticated nor Overloaded ends the
\* invocation at the attempt that met it: it is raised as it is, nothing is
\* returned, no further attempt follows; met on the first attempt, there was
\* one attempt and no relogin.
C6_OtherFaultsRaisedAtOnce ==
  \A c \in workers :
    \A i \in 1..Attempts(c) :
      Fatal(outcomes[c][i])
        => /\ i = Attempts(c)
           /\ Finished(c)
           /\ raised[c] = outcomes[c][i]
           /\ result[c] = None
           /\ (i = 1 => (relogins[c] = 0 /\ retry_count[c] = 1))

\* C6 witness: AlreadyExists on the first attempt is raised after that one attempt.
C6_Witness ==
  \E c \in workers :
    /\ Finished(c) /\ outcomes[c] = <<AlreadyExists>>
    /\ raised[c] = AlreadyExists /\ relogins[c] = 0

\* C7 (as stated): every attempt is issued through the connection handle that
\* is the session's current one, and a module that is no handle carries
\* exactly one handle argument on every try.
C7_AttemptsUseCurrentHandle ==
  \A c \in workers :
    pc[c] = "call" =>
      /\ usedHandle[c] = vim
      /\ ~IsVimObject(module[c]) => Len(args[c]) = 2

\* C8 (as stated): whenever no session creation is under way, the endpoint
\* holds at most one live login of the session.
C8_AtMostOneActiveLogin ==
  InFlight = {} => Cardinality(active) <= 1

\* C8 (amended): the live logins of the session never number more than one,
\* plus one for each TerminateSession call that failed, plus one for each
\* session creation that has logged in and not yet had the answer to its
\* TerminateSession call.
C8_ActiveLoginsBounded ==
  Cardinality(active) <=
    1 + failedTerms + Cardinality({c \in workers : pc[c] = "terminate"})

\* C8 witness: a relogin whose TerminateSession failed has left two live logins.
C8_Witness ==
  /\ InFlight = {}
  /\ failedTerms = 1
  /\ Cardinality(active) = 2
  /\ session_id \in active

\* C9 (as stated): session creation is mutually exclusive: at most one worker
\* is inside _create_session at a time, and no worker asks to terminate the
\* token another worker installed for the invocation it is still retrying.
C9_ReloginMutuallyExclusive ==
  /\ Cardinality(InFlight) <= 1
  /\ \A c \in workers : \A d \in workers \ {c} :
       (pc[c] = "terminate" /\ pc[d] \in {"try", "call"} /\ relogins[d] = 1)
         => termTarget[c] # session[d]

NonTerminalPrefix(n) ==
  \A i \in 1..n :
    observed[i].kind = "info" /\ observed[i].state \in {"queued", "running"}

\* C10: a wait whose polls see k queued/running observations and then
\* success returns "success" with exactly those k+1 polls made (4 polls for
\* queued, running, running, success): the wait stays unresolved while only
\* queued/running were seen, resolves with success at the first success, and
\* a returned wait has polled no further.
C10_SuccessAfterKPlusOnePolls ==
  LET n == Len(observed) IN
    /\ (taskPc # "off" /\ NonTerminalPrefix(n))
         => (done = NotSent /\ taskPc = "waiting" /\ running)
    /\ (n > 0 /\ NonTerminalPrefix(n - 1)
              /\ observed[n] = Info("success", ""))
         => (done = SentValue("success") /\ taskPc \in {"waiting", "returned"})
    /\ taskPc = "returned"
         => /\ n > 0
            /\ NonTerminalPrefix(n - 1)
            /\ observed[n] = Info("success", "")
            /\ done = SentValue("success")
            /\ ~running

\* C10 witness: queued, running, running, success: returned after 4 polls.
C10_Witness ==
  /\ taskPc = "returned"
  /\ Len(observed) = 4
  /\ [i \in 1..4 |-> observed[i].state] = <<"queued", "running", "running", "success">>
  /\ done = SentValue("success")

\* ------------------------------------------------- task waiter, continued
Resolved == taskPc \in {"returned", "failed"}
\* A poll result that makes _poll_task send to done.
Sends(r) == ~(r.kind = "info" /\ r.state \in {"queued", "running"})
TaskEnded == taskInfo.state \in {"success", "error"}

\* C11: when the first poll that sees the task ended sees it in error, the
\* wait fails with exactly the endpoint's localized message, it does not
\* return success, and once it has failed the task is polled no further.
C11_ErrorSurfacedVerbatim ==
  \A i \in 1..Len(observed) :
    (observed[i].kind = "info" /\ observed[i].state = "error"
       /\ NonTerminalPrefix(i - 1))
      => /\ done = SentException(observed[i].v)
         /\ taskPc # "returned"
         /\ taskPc = "failed" => Len(observed) = i

\* C12: a wait owns one probe and is resolved at most once; once the wait
\* has resolved (returned or failed) its probe is stopped and no poll was
\* made after the one that resolved it.
C12_ProbeStoppedOnceResolved ==
  Resolved
    => /\ ~running
       /\ \A i \in 1..(Len(observed) - 1) : ~Sends(observed[i])

\* C13: the wait has no timeout of its own.  While every poll so far saw
\* the task queued or running the wait is unresolved and its probe is still
\* scheduled, however many polls were made; a wait leaves "waiting" only
\* after a poll that sent; and when the task has ended while the probe has
\* polls left, fair scheduling of the probe and the waiter leads to the wait
\* resolving.
C13_NoTimeoutEventualResolution ==
  /\ [](taskPc = "waiting" /\ NonTerminalPrefix(Len(observed))
          => done = NotSent /\ running /\ loopPc \in {"poll", "sleep"})
  /\ [](Resolved => \E i \in 1..Len(observed) : Sends(observed[i]))
  /\ (taskPc = "waiting" /\ TaskEnded /\ Len(observed) < MaxPolls) ~> Resolved

\* C13 witness: three polls saw the task pending, it then ended in error,
\* and the fourth poll resolved the wait.
C13_Witness ==
  /\ taskPc = "failed"
  /\ Len(observed) = 4
  /\ NonTerminalPrefix(3)
  /\ observed[4] = Info("error", "disk full")
  /\ done = SentException("disk full")

\* -------------------------------------------------------- spawn, claims
OpNames == [i \in 1..Len(ops) |-> ops[i].op]
Lookup == "get_vm_ref_from_name"
\* The operations that change the endpoint's state.
StateChanging ==
  {"AddPortGroup", "CreateVM_Task", "ReconfigVM_Task machine_id",
   "ReconfigVM_Task vnc", "MakeDirectory", "CreateVirtualDisk_Task",
   "DeleteDatastoreFile_Task", "fetch_image", "CopyVirtualDisk_Task",
   "ReconfigVM_Task attach", "PowerOnVM_Task"}

\* C14: a spawn whose name lookup finds a VM of that name fails there with
\* InstanceExists (unless the lookup itself raised), having issued nothing
\* but the lookup and having changed nothing on the host; a spawn that failed
\* so has issued no state-changing operation; and over all spawns of a
\* behaviour no name gets more than one shell VM and one disk.
C14_ExistingNameConflicts ==
  /\ [][(spPc = "check" /\ instance.name \in vms /\ spPc' # "check")
          => /\ spPc' = "failed"
             /\ spFault' \in {Fault("check", "InstanceExists"),
                              Fault("check", "CallFailed")}
             /\ \A i \in 1..Len(ops') : ops'[i].op = Lookup
             /\ UNCHANGED hostVars]_vars
  /\ [](spFault = Fault("check", "InstanceExists")
          => /\ spPc = "failed"
             /\ OpNames = <<Lookup>>)
  /\ [](\A n \in Names : made[n].vm <= 1 /\ made[n].disk <= 1)

\* C14 witness: "vm-a" was spawned and powered on, and the second spawn of
\* "vm-a" failed at the check: one shell VM, one disk.
C14_Witness ==
  /\ spawns = 2
  /\ spPc = "failed"
  /\ spFault = Fault("check", "InstanceExists")
  /\ instance.name = "vm-a"
  /\ "vm-a" \in powered
  /\ made["vm-a"] = [vm |-> 1, disk |-> 1]

\* The phase an operation belongs to: 1 CheckNotExists, 2
\* ResolveNetworkInterfaces, 3 CreateShellVM (with its machine id and vnc
\* settings), 4 ProvisionDisk, 5 AttachDisk, 6 PowerOn.
Phase(op) ==
  IF op = Lookup THEN 1
  ELSE IF op = "AddPortGroup" THEN 2
  ELSE IF op \in {"CreateVM_Task", "ReconfigVM_Task machine_id", "ReconfigVM_Task vnc"} THEN 3
  ELSE IF op = "ReconfigVM_Task attach" THEN 5
  ELSE IF op = "PowerOnVM_Task" THEN 6
  ELSE 4
Count(op) == Cardinality({i \in 1..Len(ops) : ops[i].op = op})

\* C15 as stated: network interfaces are resolved, and a port group is
\* created, only after the shell VM's creation job.
C15_NetworkAfterShellVM ==
  (spPc = "net" \/ \E i \in 1..Len(ops) : ops[i].op = "AddPortGroup")
    => \E j \in 1..Len(ops) : ops[j].op = "CreateVM_Task"

\* C15, amended: the phases run in the order CheckNotExists,
\* ResolveNetworkInterfaces, CreateShellVM, ProvisionDisk, AttachDisk,
\* PowerOn.  The operations of a spawn never go back to an earlier phase;
\* network resolution runs right after the check, and a port group is created
\* before the creation job is issued; a spawn that returned has looked the
\* name up, created the VM, attached the disk and powered on, once each.
C15_PhasesInCodeOrder ==
  /\ \A i \in 1..Len(ops) : \A j \in i..Len(ops) :
       Phase(ops[i].op) <= Phase(ops[j].op)
  /\ spPc = "net" => OpNames = <<Lookup>>
  /\ \A i \in 1..Len(ops) :
       ops[i].op = "AddPortGroup"
         => i = 2 /\ \A j \in 1..i : ops[j].op # "CreateVM_Task"
  /\ spPc = "returned"
       => /\ Count(Lookup) = 1
          /\ Count("CreateVM_Task") = 1
          /\ Count("ReconfigVM_Task attach") = 1
          /\ Count("PowerOnVM_Task") = 1
          /\ ops[Len(ops)].op = "PowerOnVM_Task"

\* C15 witness: a spawn that created the port group, then the VM, and went
\* through to power-on.
C15_Witness ==
  /\ spPc = "returned"
  /\ ops[2].op = "AddPortGroup"
  /\ ops[3].op = "CreateVM_Task"
  /\ Count("CreateVirtualDisk_Task") = 1

IsDiskOp(o) ==
  o.op \in {"CreateVirtualDisk_Task", "DeleteDatastoreFile_Task",
            "fetch_image", "CopyVirtualDisk_Task"}
DiskShape ==
  LET d == SelectSeq(ops, IsDiskOp)
  IN [i \in 1..Len(d) |-> <<d[i].op, d[i].path.suffix>>]
DiskPhaseOver ==
  \/ spPc \in {"attach", "poweron", "returned"}
  \/ spPc = "wait" /\ spNext \in {"poweron", "returned"}

\* C17: once the disk phase of a spawn is over, its disk operations are
\* none (the artifact was found), or for a sparse image: upload to the
\* -sparse file, copy to the canonical path, delete the -sparse file; for any
\* other type: create the disk at the canonical path, delete the -flat file,
\* upload to the -flat file.
C17_DiskPhaseSequences ==
  DiskPhaseOver
    => \/ DiskShape = <<>>
       \/ /\ vmware_disktype = "sparse"
          /\ DiskShape = << <<"fetch_image", "-sparse">>,
                            <<"CopyVirtualDisk_Task", "">>,
                            <<"DeleteDatastoreFile_Task", "-sparse">> >>
       \/ /\ vmware_disktype # "sparse"
          /\ DiskShape = << <<"CreateVirtualDisk_Task", "">>,
                            <<"DeleteDatastoreFile_Task", "-flat">>,
                            <<"fetch_image", "-flat">> >>

\* C18 as stated: the path handed to the attach is always the file
\* <instanceName>.vmdk, and a sparse image is attached as thin.
C18_AttachesInstanceVmdk ==
  \A i \in 1..Len(ops) :
    ops[i].op = "ReconfigVM_Task attach"
      => /\ ops[i].path.name = instance.name
         /\ ops[i].path.suffix = ""
         /\ vmware_disktype = "sparse" => ops[i].disk_type = "thin"

\* C18, amended: the one canonical artifact is <name>/<name>.vmdk without
\* linked clones (and in the package), and vmware_base/<image_ref>.vmdk with
\* CONF.use_linked_clone.  Whatever the disk type, the disk is created at or
\* copied to that path and that path is handed to the attach; a sparse image
\* is copied and attached as thin, any other type is attached as it is.
C18_ConvergeOnCanonicalArtifact ==
  LET canonical ==
        IF variant = "nova" /\ conf.use_linked_clone
          THEN [folder |-> "vmware_base", name |-> "image-1", suffix |-> ""]
          ELSE [folder |-> instance.name, name |-> instance.name, suffix |-> ""]
  IN \A i \in 1..Len(ops) :
       /\ ops[i].op \in {"ReconfigVM_Task attach", "CreateVirtualDisk_Task",
                         "CopyVirtualDisk_Task", "SearchDatastore_Task"}
            => ops[i].path = canonical
       /\ ops[i].op \in {"ReconfigVM_Task attach", "CopyVirtualDisk_Task"}
            => ops[i].disk_type =
                 IF variant = "package" THEN "preallocated"
                 ELSE IF vmware_disktype = "sparse" THEN "thin"
                 ELSE vmware_disktype

\* C18 witness: with linked clones, a sparse image was uploaded, copied to
\* vmware_base/image-1.vmdk and attached from there as thin.
C18_Witness ==
  /\ spPc = "returned"
  /\ conf.use_linked_clone
  /\ vmware_disktype = "sparse"
  /\ Count("CopyVirtualDisk_Task") = 1
  /\ \E i \in 1..Len(ops) :
       /\ ops[i].op = "ReconfigVM_Task attach"
       /\ ops[i].path = Vmdk(InstancePathBase, ImageRef, "")
       /\ ops[i].disk_type = "thin"

Provisioning ==
  {"CreateVirtualDisk_Task", "DeleteDatastoreFile_Task", "fetch_image",
   "CopyVirtualDisk_Task"}
\* The configurations in which the source calls the probe.
Probing == variant = "package" \/ conf.use_linked_clone
Creations == Count("CreateVirtualDisk_Task") + Count("CopyVirtualDisk_Task")
ProbedBefore(i) == \E j \in 1..(i - 1) : ops[j].op = "SearchDatastore_Task"

SpawnAbortsWithoutRollback ==
  /\ [](spPc = "failed"
          => /\ spFault # NoFault
             /\ spFault.kind \in {"TaskError", "PollFailed"}
                  => /\ ops[Len(ops)].op = spFault.phase
                     /\ spTask.op = spFault.phase
                     /\ spTask.n = spawns
             /\ spFault.kind = "TaskError" => spTask.state = "error")
  /\ []((spTask.n = spawns /\ spTask.state = "error"
            /\ spTask.op # "SearchDatastore_Task")
          => spPc \in {"wait", "failed"})
  /\ [][spPc = "failed"
          => \/ spPc' = "failed" /\ ops' = ops /\ spFault' = spFault
             \/ spPc' = "check" /\ ops' = <<>>]_vars
  /\ [][vms \subseteq vms']_vars
  /\ [][(spPc = "check" /\ made[instance.name].vm > 0 /\ spPc' # "check")
          => spPc' = "failed" /\ spFault'.phase = "check"]_vars

\* A later spawn of a name whose shell VM was left behind by a failed spawn
\* (made, never powered on) fails at the check.
SpawnAfterFailedSpawnConflicts ==
  /\ spawns = 2
  /\ spPc = "failed"
  /\ spFault = Fault("check", "InstanceExists")
  /\ made[instance.name].vm = 1
  /\ instance.name \in vms
  /\ instance.name \notin powered

\* C20: a spawn that failed because a job of one of its phases ended in
\* error raises that job's fault, that is, it names the job and carries the
\* error message the endpoint reported for it; and no later phase follows a
\* job that ended in error.
C20_RaisesOriginatingFault ==
  /\ (spPc = "failed" /\ spFault.kind = "TaskError")
       => /\ spFault.phase = spTask.op
          /\ spTask.state = "error"
          /\ spFault.message = spTask.msg
  /\ (spTask.n = spawns /\ spTask.state = "error"
        /\ spTask.op # "SearchDatastore_Task")
       => spPc \in {"wait", "failed"}

\* Variant: revert ends with the rename.
AfterRenameReturns(op) == IF op = "finish_revert_migration" THEN "return" ELSE "m_clone"
\* After its rename revert powers the instance on; migrate clones.
AfterRename(op) == IF op = "finish_revert_migration" THEN "on" ELSE "m_clone"
\* Variant: migrate clones right after the power-off.
AfterPowerOffClones(op) == IF op = "rescue" THEN "r_spawn" ELSE "m_clone"
\* Where rescue and migrate go on after power_off.
AfterPowerOff(op) == IF op = "rescue" THEN "r_spawn" ELSE "m_rename"

\* power_off (from rescue and migrate): only a VM that is powered on is
\* powered off; a suspended one makes it raise.
LifePowerOff ==
  /\ lpc = "off"
  /\ LET ref == RefOfName(lname)
         reads == <<Read("get_vm_ref_from_name", 0, lname),
                    Read("get_dynamic_property", ref, "")>>
     IN \/ /\ ref = 0
           /\ llog' = Append(llog, Read("get_vm_ref_from_name", 0, lname))
           /\ UNCHANGED ltask
           /\ End(Raised("InstanceNotFound"))
        \/ /\ ref # 0 /\ VmOf(ref).power = "poweredOn"
           /\ IssueJob(reads, "PowerOffVM_Task", ref, "", NoDisk,
                       AfterPowerOff(lop), "raise")
        \/ /\ ref # 0 /\ VmOf(ref).power = "poweredOn"
           /\ CallRaises(reads, "PowerOffVM_Task", ref, "", NoDisk, "raise")
        \/ /\ ref # 0 /\ VmOf(ref).power # "poweredOn"
           /\ RefusesPowerOff(VmOf(ref).power)
           /\ llog' = llog \o reads
           /\ UNCHANGED ltask
           /\ End(Raised("InstancePowerOffFailure"))
        \/ /\ ref # 0 /\ VmOf(ref).power # "poweredOn"
           /\ ~RefusesPowerOff(VmOf(ref).power)
           /\ llog' = llog \o reads
           /\ UNCHANGED ltask
           /\ Goto(AfterPowerOff(lop))
  /\ UNCHANGED <<lop, lentry, lname, vm_ref, destroy_disks, lifeOps, lprev, lhostVars>>
  /\ LifeUnchanged

\* power_on (from unrescue, finish_migration and finish_revert_migration,
\* each as its last statement): a VM that is not powered on is powered on.
LifePowerOn ==
  /\ lpc = "on"
  /\ LET ref == RefOfName(lname)
         reads == <<Read("get_vm_ref_from_name", 0, lname),
                    Read("get_dynamic_property", ref, "")>>
     IN \/ /\ ref = 0
           /\ llog' = Append(llog, Read("get_vm_ref_from_name", 0, lname))
           /\ UNCHANGED ltask
           /\ End(Raised("InstanceNotFound"))
        \/ /\ ref # 0 /\ VmOf(ref).power = "poweredOn"
           /\ llog' = llog \o reads
           /\ UNCHANGED ltask
           /\ End(Returned)
        \/ /\ ref # 0 /\ VmOf(ref).power # "poweredOn"
           /\ IssueJob(reads, "PowerOnVM_Task", ref, "", NoDisk, "return", "raise")
        \/ /\ ref # 0 /\ VmOf(ref).power # "poweredOn"
           /\ CallRaises(reads, "PowerOnVM_Task", ref, "", NoDisk, "raise")
  /\ UNCHANGED <<lop, lentry, lname, vm_ref, destroy_disks, lifeOps, lprev, lhostVars>>
  /\ LifeUnchanged

\* rescue: the VM is looked up; without it rescue raises.
RescueLookup ==
  /\ lpc = "r_lookup"
  /\ \/ /\ llog' = Append(llog, Read("get_vm_ref_from_name", 0, lname))
        /\ vm_ref' = RefOfName(lname)
        /\ IF RefOfName(lname) = 0
             THEN End(Raised("InstanceNotFound"))
             ELSE Goto("off")
        /\ UNCHANGED ltask
     \/ /\ CallRaises(<<>>, "get_vm_ref_from_name", 0, lname, NoDisk, "raise")
        /\ UNCHANGED vm_ref
  /\ UNCHANGED <<lop, lentry, lname, destroy_disks, lifeOps, lprev, lhostVars>>
  /\ LifeUnchanged

\* rescue: instance['name'] gets the rescue suffix and spawn is called for
\* it.  spawn as a whole: it raises for a name that exists; otherwise it
\* either leaves a new VM powered on, or raises, with or without the shell
\* VM it made.
RescueSpawn ==
  /\ lpc = "r_spawn"
  /\ lname' = RescueName(lname)
  /\ UNCHANGED ltask
  /\ IF RefOfName(RescueName(lname)) # 0
       THEN /\ llog' = Append(llog, Call("spawn", 0, RescueName(lname), NoDisk,
                                         LifeBusy, FALSE))
            /\ End(Raised("InstanceExists"))
            /\ UNCHANGED lhostVars
       ELSE \E o \in {"powered on", "shell left", "nothing made"} :
              /\ llog' = Append(llog, Call("spawn", 0, RescueName(lname), NoDisk,
                                           LifeBusy, o = "powered on"))
              /\ IF o = "powered on" THEN Goto("r_attach") ELSE End(Raised("SpawnFailed"))
              /\ IF o = "nothing made"
                   THEN UNCHANGED lhostVars
                   ELSE /\ hvms' = hvms \cup
                             {Vm(nextId, RescueName(lname),
                                 IF o = "powered on" THEN "poweredOn" ELSE "poweredOff",
                                 0)}
                        /\ hdirs' = hdirs \cup {nextId}
                        /\ nextId' = nextId + 1
  /\ UNCHANGED <<lop, lentry, vm_ref, destroy_disks, lifeOps, lprev>>
  /\ LifeUnchanged

\* rescue: the disk of the original VM is attached to the rescue VM, one
\* unit number above its place on the original.
RescueAttach ==
  /\ lpc = "r_attach"
  /\ LET reads == <<Read("get_dynamic_property", vm_ref, ""),
                    Read("get_vm_ref_from_name", 0, lname)>>
         disk == Disk(VmOf(vm_ref).dir, RescueUnitNumber(VmOf(vm_ref).unit))
     IN \/ IssueJob(reads, "ReconfigVM_Task", RefOfName(lname), "", disk,
                    "return", "raise")
        \/ CallRaises(reads, "ReconfigVM_Task", RefOfName(lname), "", disk, "raise")
  /\ UNCHANGED <<lop, lentry, lname, vm_ref, destroy_disks, lifeOps, lprev, lhostVars>>
  /\ LifeUnchanged

\* migrate_disk_and_power_off: the VM and the destination host are looked up.
MigrateLookup ==
  /\ lpc = "m_lookup"
  /\ \/ /\ llog' = Append(llog, Read("get_vm_ref_from_name", 0, lname))
        /\ vm_ref' = RefOfName(lname)
        /\ IF RefOfName(lname) = 0
             THEN End(Raised("InstanceNotFound"))
             ELSE \/ Goto("off")
                  \/ End(Raised("HostNotFound"))
        /\ UNCHANGED ltask
     \/ /\ CallRaises(<<>>, "get_vm_ref_from_name", 0, lname, NoDisk, "raise")
        /\ UNCHANGED vm_ref
  /\ UNCHANGED <<lop, lentry, lname, destroy_disks, lifeOps, lprev, lhostVars>>
  /\ LifeUnchanged

\* migrate: the source is renamed to the '-orig' label.
MigrateRename ==
  /\ lpc = "m_rename"
  /\ \/ IssueJob(<<>>, "Rename_Task", vm_ref, OrigNameLabel(lname), NoDisk,
                 AfterRename(lop), "raise")
     \/ CallRaises(<<>>, "Rename_Task", vm_ref, OrigNameLabel(lname), NoDisk, "raise")
  /\ UNCHANGED <<lop, lentry, lname, vm_ref, destroy_disks, lifeOps, lprev, lhostVars>>
  /\ LifeUnchanged

\* migrate: the source is cloned under the instance's name.
MigrateClone ==
  /\ lpc = "m_clone"
  /\ \/ IssueJob(<<>>, "CloneVM_Task", vm_ref, lname, NoDisk, "return", "raise")
     \/ CallRaises(<<>>, "CloneVM_Task", vm_ref, lname, NoDisk, "raise")
  /\ UNCHANGED <<lop, lentry, lname, vm_ref, destroy_disks, lifeOps, lprev, lhostVars>>
  /\ LifeUnchanged

\* confirm_migration: the '-orig' VM is looked up; without it confirm
\* returns; otherwise it is destroyed, and a failure of that is logged.
ConfirmMigration ==
  /\ lpc = "c_lookup"
  /\ LET name == OrigNameLabel(lname)
         reads == <<Read("get_vm_ref_from_name", 0, name)>>
     IN \/ /\ RefOfName(name) = 0
           /\ llog' = llog \o reads
           /\ vm_ref' = 0
           /\ UNCHANGED ltask
           /\ End(Returned)
        \/ /\ RefOfName(name) # 0
           /\ vm_ref' = RefOfName(name)
           /\ \/ IssueJob(reads, "Destroy_Task", RefOfName(name), "", NoDisk,
                          "return", "return")
              \/ CallRaises(reads, "Destroy_Task", RefOfName(name), "", NoDisk,
                            "return")
        \/ /\ CallRaises(<<>>, "get_vm_ref_from_name", 0, name, NoDisk, "raise")
           /\ UNCHANGED vm_ref
  /\ UNCHANGED <<lop, lentry, lname, destroy_disks, lifeOps, lprev, lhostVars>>
  /\ LifeUnchanged

\* finish_revert_migration: the '-orig' VM is looked up; without it revert
\* raises; otherwise it is renamed back and then powered on.
FinishRevertMigration ==
  /\ lpc = "v_lookup"
  /\ LET name == OrigNameLabel(lname)
         reads == <<Read("get_vm_ref_from_name", 0, name)>>
     IN \/ /\ RefOfName(name) = 0
           /\ llog' = llog \o reads
           /\ vm_ref' = 0
           /\ UNCHANGED ltask
           /\ End(Raised("InstanceNotFound"))
        \/ /\ RefOfName(name) # 0
           /\ vm_ref' = RefOfName(name)
           /\ \/ IssueJob(reads, "Rename_Task", RefOfName(name), lname, NoDisk,
                          AfterRename(lop), "raise")
              \/ CallRaises(reads, "Rename_Task", RefOfName(name), lname, NoDisk,
                            "raise")
        \/ /\ CallRaises(<<>>, "get_vm_ref_from_name", 0, name, NoDisk, "raise")
           /\ UNCHANGED vm_ref
  /\ UNCHANGED <<lop, lentry, lname, destroy_disks, lifeOps, lprev, lhostVars>>
  /\ LifeUnchanged

\* _wait_for_task returns or raises once the job has ended.
LifeAwait ==
  /\ lpc = "wait"
  /\ WaitOver(ltask.state)
  /\ IF ltask.state = "error" THEN Jump(lfail, "TaskError") ELSE Jump(lnext, "")
  /\ llog' = Append(llog, Call("_wait_for_task", ltask.vm, "", NoDisk, LifeBusy,
                               ltask.state # "error"))
  /\ UNCHANGED <<lop, lentry, lname, vm_ref, destroy_disks, ltask, lifeOps, lprev, lhostVars>>
  /\ LifeUnchanged

\* A poll of the pending job raises: the wait fails whatever the job does.
LifePollFails ==
  /\ lpc = "wait"
  /\ Jump(lfail, "PollFailed")
  /\ llog' = Append(llog, Call("_wait_for_task", ltask.vm, "poll raised", NoDisk,
                               LifeBusy, FALSE))
  /\ UNCHANGED <<lop, lentry, lname, vm_ref, destroy_disks, ltask, lifeOps, lprev, lhostVars>>
  /\ LifeUnchanged

\* What the endpoint needs for a job to succeed.
Feasible(t) ==
  CASE t.op = "PowerOffVM_Task" -> Registered(t.vm) /\ VmOf(t.vm).power = "poweredOn"
    [] t.op = "PowerOnVM_Task" -> Registered(t.vm) /\ VmOf(t.vm).power # "poweredOn"
    [] t.op = "Rename_Task" -> Registered(t.vm) /\ VmNamed(t.name) = {}
    [] t.op = "CloneVM_Task" -> Registered(t.vm) /\ VmNamed(t.name) = {}
    [] t.op = "Destroy_Task" -> Registered(t.vm) /\ VmOf(t.vm).power # "poweredOn"
    [] t.op = "ReconfigVM_Task" -> Registered(t.vm)
    [] t.op = "DeleteDatastoreFile_Task" -> t.disk.dir \in hdirs

\* The VMs after the job succeeded.
VmsAfter(t) ==
  CASE t.op = "PowerOffVM_Task" ->
         (hvms \ {VmOf(t.vm)}) \cup {[VmOf(t.vm) EXCEPT !.power = "poweredOff"]}
    [] t.op = "PowerOnVM_Task" ->
         (hvms \ {VmOf(t.vm)}) \cup {[VmOf(t.vm) EXCEPT !.power = "poweredOn"]}
    [] t.op = "Rename_Task" ->
         (hvms \ {VmOf(t.vm)}) \cup {[VmOf(t.vm) EXCEPT !.name = t.name]}
    [] t.op = "CloneVM_Task" ->
         hvms \cup {Vm(nextId, t.name, "poweredOff", VmOf(t.vm).unit)}
    [] t.op = "Destroy_Task" -> hvms \ {VmOf(t.vm)}
    [] t.op = "ReconfigVM_Task" ->
         (hvms \ {VmOf(t.vm)}) \cup {[VmOf(t.vm) EXCEPT !.extra = @ \cup {t.disk}]}
    [] t.op = "DeleteDatastoreFile_Task" -> hvms

\* The endpoint ends the pending job, with its effect on success.
LifeTaskEnds ==
  /\ ltask.state = "queued"
  /\ \E ok \in BOOLEAN :
       /\ ok => Feasible(ltask)
       /\ ltask' = [ltask EXCEPT !.state = IF ok THEN "success" ELSE "error"]
       /\ hvms' = IF ok THEN VmsAfter(ltask) ELSE hvms
       /\ hdirs' = IF ~ok THEN hdirs
                   ELSE IF ltask.op = "CloneVM_Task" THEN hdirs \cup {nextId}
                   ELSE IF ltask.op = "Destroy_Task" THEN hdirs \ {VmOf(ltask.vm).dir}
                   ELSE IF ltask.op = "DeleteDatastoreFile_Task"
                     THEN hdirs \ {ltask.disk.dir}
                   ELSE hdirs
       /\ nextId' = IF ok /\ ltask.op = "CloneVM_Task" THEN nextId + 1 ELSE nextId
  /\ UNCHANGED <<lop, lentry, lpc, lname, vm_ref, destroy_disks, lnext, lfail, llog, lres,
                 lifeOps, lprev>>
  /\ LifeUnchanged

\* The instance's VM before the first operation: none, or one in any power
\* state whose disk sits at unit 0 or 1.
InitLife ==
  /\ InitSession({"w1"})
  /\ api_retry_count = MaxRetry
  /\ InitCall
  /\ InitTaskIdle
  /\ variant \in Variants
  /\ conf = PackageConf
  /\ vmware_disktype = "preallocated"
  /\ should_create_vlan = FALSE
  /\ vms = {}
  /\ powered = {}
  /\ files = {}
  /\ folders = {}
  /\ networks = {}
  /\ InitSpawnIdle
  /\ InitDownIdle
  /\ InitVimIdle
  /\ InitNetIdle
  /\ hvms \in {{}} \cup {{Vm(1, InstanceName, p, u)} : p \in PowerStates, u \in {0, 1}}
  /\ hdirs = {v.dir : v \in hvms}
  /\ nextId = 2
  /\ lop = ""
  /\ lpc = "idle"
  /\ lname = ""
  /\ lentry = ""
  /\ vm_ref = 0
  /\ destroy_disks = TRUE
  /\ lnext = ""
  /\ lfail = ""
  /\ ltask = NoLifeTask
  /\ llog = <<>>
  /\ lres = NotEnded
  /\ lifeOps = 0
  /\ lprev = [op |-> "", res |-> NotEnded]

NextLife ==
  \/ \E op \in LifeOpsOf("nova") : LifeStart(op)
  \/ DestroyLookup
  \/ DestroyPowerOff
  \/ DestroyUnregister
  \/ DestroyDelete
  \/ DestroyEnd
  \/ LifePowerOff
  \/ LifePowerOn
  \/ RescueLookup
  \/ RescueSpawn
  \/ RescueAttach
  \/ MigrateLookup
  \/ MigrateRename
  \/ MigrateClone
  \/ ConfirmMigration
  \/ FinishRevertMigration
  \/ LifeAwait
  \/ LifePollFails
  \/ LifeTaskEnds

SpecLife == InitLife /\ [][NextLife]_vars

\* ------------------------------------------------------- session teardown
\* VMwareAPISession.__del__ (src/driver.py): the session object is dropped,
\* once, when nothing holds it any more: after a construction that raised
\* (self.vim still None, or a handle that never logged in) or when no call
\* is running.
NoHandle == "AttributeError"

\* What self.vim.Logout(...) does: without a handle the attribute lookup on
\* None raises; through a handle the endpoint ends the handle's login, or
\* answers NotAuthenticated when it has none, or the request fails in
\* transport.
LogoutOutcomes(h, alive) ==
  IF h = NoSession THEN {NoHandle}
  ELSE (IF h \in alive THEN {Ok} ELSE {NotAuthenticated}) \cup {Overloaded, OtherError}

\* Variant: the handler catches the endpoint's faults only.
LogoutHandlerFaultsOnly(o) == IF o \in {Ok, NotAuthenticated} THEN None ELSE o
\* Lines 331-334: except Exception logs; nothing leaves __del__.
LogoutHandler(o) == None

\* __init__ raised in _create_session: no handle was built, or Login failed
\* through the first handle.  No token is stored and nobody holds the object.
InitFailed ==
  /\ workers = {"w1"}
  /\ api_retry_count \in 0..MaxRetry
  /\ vim \in {NoSession, 1}
  /\ created = vim
  /\ session_id = NoSession
  /\ active = {}
  /\ failedTerms = 0
  /\ invokes = 0

InitDown ==
  /\ InitSession({"w1"}) \/ InitFailed
  /\ InitCall
  /\ InitTaskIdle
  /\ InitVmIdle

\* The object was constructed and is still held: its methods can be called.
Held == torn = FALSE /\ session_id # NoSession

\* Lines 325-334: Logout through self.vim inside try/except Exception.
Del ==
  /\ torn = FALSE
  /\ \A c \in workers : pc[c] \in {"idle", "done"}
  /\ torn' = TRUE
  /\ \E o \in LogoutOutcomes(vim, active) :
       /\ logout' = o
       /\ active' = IF o = Ok THEN active \ {vim} ELSE active
       /\ delRaised' = LogoutHandler(o)
  /\ UNCHANGED <<workers, api_retry_count, vim, session_id, created, failedTerms,
                 invokes>>
  /\ UNCHANGED <<callVars, taskVars, confVars, hostVars, spawnVars, netVars,
                 lhostVars, lifeVars, vimVars>>

NextDown ==
  \/ Held /\ Next
  \/ Del

SpecDown == InitDown /\ [][NextDown]_vars

\* ------------------------------------------------- vim_request_handler
\* Vim.__getattr__ (src/pyvmwareapi/vim.py): the except clauses around one
\* request.  An exception is its type, whether str() of it can be taken
\* (Python 2: a unicode message outside ASCII cannot), the results of
\* str.find for ADDRESS_IN_USE_ERROR, CONN_ABORT_ERROR and
\* RESP_NOT_XML_ERROR in that order (-1: not found), and for a suds.WebFault
\* the Fault/detail element of its document (childAtPath gives None when
\* there is none) with the types of its children.  The fault check that
\* could raise VimFaultException inside the try is commented out.
HttplibErrors == {"CannotSendRequest", "ResponseNotReady", "CannotSendHeader"}
ExcepTypes == {"WebFault", "AttributeError", "OtherException"} \cup HttplibErrors
FindResults == {-1, 0, 3}
Details ==
  {[present |-> FALSE, types |-> <<>>]}
    \cup {[present |-> TRUE, types |-> t] :
            t \in {<<>>, <<NotAuthenticated>>, <<InvalidArgument>>}}
Exceps ==
  {[type |-> t, ascii |-> a, find |-> <<f1, f2, f3>>, detail |-> d] :
     t \in ExcepTypes, a \in BOOLEAN, f1 \in FindResults, f2 \in FindResults,
     f3 \in FindResults, d \in Details}

\* Python: a comparison gives True (1) or False (0); "x or y" is x when x
\* is true, else y.
PyNe(a, b) == IF a # b THEN 1 ELSE 0
PyOr(a, b) == IF a # 0 THEN a ELSE b

\* Lines 117-119: (find(ADDRESS_IN_USE_ERROR) != -1 or
\* find(CONN_ABORT_ERROR)) != -1, with the parentheses as written.
IsSocketOverload(f) == PyNe(PyOr(PyNe(f[1], -1), f[2]), -1) = 1

Raise(class, fault_list) == [class |-> class, fault_list |-> fault_list]

\* Lines 114-128: except Exception; str(excep) is taken first.
GenericClause(e) ==
  IF ~e.ascii THEN Raise("UnicodeEncodeError", <<>>)
  ELSE IF IsSocketOverload(e.find) THEN Raise("SessionOverLoadException", <<>>)
  ELSE IF e.find[3] # -1 THEN Raise("SessionOverLoadException", <<>>)
  ELSE Raise("VimException", <<>>)

\* Lines 98-128: the clause the exception lands in, and what it raises.  An
\* exception raised inside a clause leaves the handler as it is.
Classify(e) ==
  IF e.type = "WebFault"
    THEN IF e.detail.present
           THEN Raise("VimFaultException", e.detail.types)
           ELSE Raise("AttributeError", <<>>)
  ELSE IF e.type = "AttributeError" THEN Raise("VimAttributeError", <<>>)
  ELSE IF e.type \in HttplibErrors THEN Raise("SessionOverLoadException", <<>>)
  ELSE GenericClause(e)

InitVim ==
  /\ InitSession({"w1"})
  /\ api_retry_count = MaxRetry
  /\ InitCall
  /\ InitTaskIdle
  /\ InitVmIdle

\* The request raises.
RequestRaises ==
  /\ excep = NoExcep
  /\ excep' \in {e \in Exceps : e.type = "WebFault" \/ ~e.detail.present}
  /\ handled' = Unhandled
  /\ UNCHANGED <<sessVars, callVars, taskVars, confVars, hostVars, spawnVars,
                 netVars, lhostVars, lifeVars, downVars>>

\* The except clause runs.
HandleExcep ==
  /\ excep # NoExcep
  /\ handled = Unhandled
  /\ handled' = Classify(excep)
  /\ UNCHANGED excep
  /\ UNCHANGED <<sessVars, callVars, taskVars, confVars, hostVars, spawnVars,
                 netVars, lhostVars, lifeVars, downVars>>

NextVim == RequestRaises \/ HandleExcep

SpecVim == InitVim /\ [][NextVim]_vars

\* ---------------------------------------------------------------- C21, C22
\* The places of a call in the log of the running operation.
At(op) == {i \in DOMAIN llog : llog[i].op = op}
\* Operation op was called last and has ended.
Ended(op) == lop = op /\ lpc = "idle" /\ lres # NotEnded
\* A job of an earlier operation, whose wait raised, is still pending.
LifeStale == ltask.state = "queued" /\ ltask.n < lifeOps
\* destroy powered the VM off and its UnregisterVM call raised.
UnregisterFailed ==
  /\ At("PowerOffVM_Task") # {}
  /\ \E i \in At("UnregisterVM") : ~llog[i].ok
\* After UnregisterVM, destroy called DeleteDatastoreFile_Task for the VM's
\* folder and, having got a job, waited for it.
DeletedAfterUnregister ==
  \E i \in At("UnregisterVM"), k \in At("DeleteDatastoreFile_Task") :
    /\ i < k
    /\ llog[k].disk = Disk(vm_ref, 0)
    /\ ~llog[k].busy
    /\ llog[k].ok => k + 1 \in At("_wait_for_task")

\* C21 as stated: destroy of a powered-on VM whose UnregisterVM failed has
\* still called the folder deletion, waited for it, and returned.
C21_FolderDeletionDespiteUnregisterFailure ==
  (Ended("destroy") /\ UnregisterFailed)
    => lres = Returned /\ DeletedAfterUnregister

\* C21 amended: that holds when destroy was asked to destroy the disks;
\* with destroy_disks false it returns without the folder deletion.
C21_FolderDeletionWhenDestroyingDisks ==
  /\ (Ended("destroy") /\ UnregisterFailed /\ destroy_disks)
       => lres = Returned /\ DeletedAfterUnregister
  /\ (Ended("destroy") /\ UnregisterFailed /\ ~destroy_disks)
       => lres = Returned /\ At("DeleteDatastoreFile_Task") = {}

\* C21 witness: destroy powered the VM off, UnregisterVM raised, the folder
\* deletion succeeded and destroy returned; the VM is still registered.
C21_Witness ==
  /\ Ended("destroy") /\ UnregisterFailed /\ destroy_disks
  /\ lres = Returned
  /\ ltask.op = "DeleteDatastoreFile_Task" /\ ltask.state = "success"
  /\ Registered(vm_ref) /\ vm_ref \notin hdirs

\* C22: destroy whose lookup found no VM returns having made no other
\* remote call; and while it runs (no job of an earlier operation pending)
\* nothing changes on the endpoint.
C22_DestroyOfAbsentVmIsNoOp ==
  /\ []((Ended("destroy") /\ llog[1].ok /\ vm_ref = 0)
          => /\ lres = Returned
             /\ Len(llog) = 1
             /\ llog[1].op = "get_vm_ref_from_name")
  /\ [][(lop = "destroy" /\ lpc # "idle" /\ ~LifeStale /\ vm_ref = 0
           /\ \A v \in hvms : v.name # lname)
          => hvms' = hvms /\ hdirs' = hdirs]_vars

\* C22 witness: a destroy unregistered the VM (its folder is still there),
\* and the destroy called after it found no VM and returned.
C22_Witness ==
  /\ lifeOps = 2
  /\ lprev = [op |-> "destroy", res |-> Returned]
  /\ Ended("destroy") /\ lres = Returned
  /\ hvms = {} /\ hdirs = {1}
  /\ Len(llog) = 1

\* ---------------------------------------------------------------- C23, C24
\* The callers whose AddPortGroup call produced outcome o.
Added(o) == {w \in Workers : addResult[w] = o}

\* C23: of two concurrent ensure_vlan_bridge calls that both saw the network
\* absent, at most one AddPortGroup creates the port group; the caller that
\* got AlreadyExists goes on without raising; once both have finished, one
\* of them created the port group, the other got AlreadyExists, and the
\* network exists; a caller whose AddPortGroup failed otherwise has raised.
C23_ConcurrentPortGroupCreation ==
  /\ pgAdds <= 1
  /\ Cardinality(Added(Ok)) = pgAdds
  /\ \A w \in Added(AlreadyExists) :
       netPc[w] \in {"return", "done"} /\ netRaised[w] = ""
  /\ \A w \in Added(InvalidArgument) \cup Added(OtherError) :
       netPc[w] = "raised" /\ netRaised[w] # ""
  /\ (\A w \in Workers : netPc[w] = "done" /\ addResult[w] # "")
       => /\ Cardinality(Added(Ok)) = 1
          /\ Cardinality(Added(AlreadyExists)) = 1
          /\ Bridge \in networks
  /\ (\E w \in Workers : netPc[w] = "done") => Bridge \in networks

\* C23 witness: both callers looked the network up before either added it,
\* w1 created the port group, w2 got AlreadyExists, and both have finished.
C23_Witness ==
  /\ netPc = [w \in Workers |-> "done"]
  /\ addResult = [w \in Workers |-> IF w = "w1" THEN Ok ELSE AlreadyExists]
  /\ pgAdds = 1
  /\ netRaised = [w \in Workers |-> ""]

\* C24: a call of ensure_vlan_bridge that finished handed the caller the
\* reference of the network named as requested, which spawn stored.
C24_ReturnsNetworkReference ==
  \A w \in Workers :
    netPc[w] = "done" => netRet[w].set /\ netRet[w].ref = NetworkRef(Bridge)

\* ---------------------------------------------------------------- C25
\* The calls that change something on the endpoint.
ChangingOps ==
  {"PowerOffVM_Task", "PowerOnVM_Task", "Rename_Task", "CloneVM_Task",
   "Destroy_Task", "ReconfigVM_Task", "DeleteDatastoreFile_Task",
   "UnregisterVM", "spawn"}
IsChanging(e) == e.op \in ChangingOps
\* The changing calls of the running operation, in order, by name.
Changes == SelectSeq(llog, IsChanging)
ChangeOps == [i \in DOMAIN Changes |-> Changes[i].op]
IsPrefix(s, t) == Len(s) <= Len(t) /\ \A i \in DOMAIN s : s[i] = t[i]
\* Every changing call but the last returned a job, was made with no job
\* pending, and was followed at once by a wait that returned normally.
EachAwaited ==
  \A i, j \in DOMAIN llog :
    (i < j /\ IsChanging(llog[i]) /\ IsChanging(llog[j]))
      => /\ ~llog[i].busy /\ ~llog[j].busy
         /\ llog[i].ok
         /\ llog[i + 1].op = "_wait_for_task" /\ llog[i + 1].ok

\* C25: migrate_disk_and_power_off powers the source off (when it is on),
\* renames it to '<name>-orig' and clones it under the instance's name, in
\* that order and each job awaited before the next call; when it returns all
\* of it is done.  While migrate or finish_migration runs (no job of an
\* earlier operation pending) a VM named '<name>-orig' stays registered
\* under that name.
C25_MigrateOrderAndRollbackPoint ==
  /\ [](lop = "migrate_disk_and_power_off"
          => /\ \/ IsPrefix(ChangeOps, <<"PowerOffVM_Task", "Rename_Task", "CloneVM_Task">>)
                \/ IsPrefix(ChangeOps, <<"Rename_Task", "CloneVM_Task">>)
             /\ EachAwaited
             /\ \A i \in At("Rename_Task") :
                  llog[i].vm = vm_ref /\ llog[i].name = InstanceName \o "-orig"
             /\ \A i \in At("CloneVM_Task") :
                  llog[i].vm = vm_ref /\ llog[i].name = InstanceName)
  /\ []((Ended("migrate_disk_and_power_off") /\ lres = Returned)
          => /\ At("Rename_Task") # {} /\ At("CloneVM_Task") # {}
             /\ llog[Len(llog)].op = "_wait_for_task" /\ llog[Len(llog)].ok
             /\ ltask.op = "CloneVM_Task" /\ ltask.state = "success")
  /\ [][(lop \in {"migrate_disk_and_power_off", "finish_migration"} /\ ~LifeStale)
          => \A v \in hvms :
               v.name = InstanceName \o "-orig"
                 => \E u \in hvms' : u.id = v.id /\ u.name = v.name]_vars

\* C25 witness: migrate returned, leaving the source as 'vm-a-orig' and its
\* clone as 'vm-a', and finish_migration then powered the clone on.
C25_Witness ==
  /\ lprev = [op |-> "migrate_disk_and_power_off", res |-> Returned]
  /\ Ended("finish_migration") /\ lres = Returned
  /\ \E v \in hvms : v.id = 1 /\ v.name = InstanceName \o "-orig" /\ v.power = "poweredOff"
  /\ \E v \in hvms : v.id = 2 /\ v.name = InstanceName /\ v.power = "poweredOn"

\* ---------------------------------------------------------------- C26
\* C26: the only job confirm_migration issues is Destroy_Task, for the VM
\* that carries the name '<name>-orig' at that moment; a VM carrying the
\* instance's name is left as it is while confirm runs; when the lookup
\* found no '-orig' VM confirm returns having issued nothing; and confirm
\* returns normally whatever became of the destroy job.
C26_ConfirmDestroysOnlySuffixedVm ==
  /\ [][(lop = "confirm_migration" /\ ltask' # ltask /\ ltask'.state = "queued")
          => /\ ltask'.op = "Destroy_Task"
             /\ \E v \in hvms : v.id = ltask'.vm /\ v.name = InstanceName \o "-orig"]_vars
  /\ [][(lop = "confirm_migration" /\ ~LifeStale)
          => \A v \in hvms : v.name = InstanceName => v \in hvms']_vars
  /\ [](lop = "confirm_migration" => IsPrefix(ChangeOps, <<"Destroy_Task">>))
  /\ []((Ended("confirm_migration") /\ llog[1].ok)
          => /\ lres = Returned
             /\ vm_ref = 0 => Len(llog) = 1 /\ llog[1].op = "get_vm_ref_from_name")

\* C26 witness: after a migrate, confirm's destroy job for 'vm-a-orig'
\* ended in error and confirm returned; both VMs are still there.
C26_Witness ==
  /\ lprev = [op |-> "migrate_disk_and_power_off", res |-> Returned]
  /\ Ended("confirm_migration") /\ lres = Returned
  /\ ltask.n = lifeOps /\ ltask.op = "Destroy_Task" /\ ltask.state = "error"
  /\ \E v \in hvms : v.id = ltask.vm /\ v.name = InstanceName \o "-orig"
  /\ \E v \in hvms : v.name = InstanceName

\* ---------------------------------------------------------------- C27
\* Every remote call of the running operation returned and no poll raised:
\* what failed, if anything, is a job.
CallsReturned ==
  \A i \in DOMAIN llog :
    IF llog[i].op = "_wait_for_task" THEN llog[i].name # "poll raised" ELSE llog[i].ok
\* The endpoint refused no job it could have done: the last job, when it
\* ended in error, was one the host's state rules out.
NoJobRefused == ltask.state = "error" => ~Feasible(ltask)
\* The VM revert looked up carries the instance's name again and is powered
\* on, and no VM is named '<name>-orig'.
OriginalRestored ==
  /\ \E v \in hvms : v.id = vm_ref /\ v.name = InstanceName /\ v.power = "poweredOn"
  /\ \A v \in hvms : v.name # InstanceName \o "-orig"

\* C27 as stated: finish_revert_migration called right after a migrate that
\* returned (its clone step completed) restores the original, whenever its
\* remote calls return and the endpoint does every job it can.
C27_RevertAfterMigrateRestoresOriginal ==
  (/\ Ended("finish_revert_migration")
   /\ lprev = [op |-> "migrate_disk_and_power_off", res |-> Returned]
   /\ CallsReturned /\ NoJobRefused)
    => lres = Returned /\ OriginalRestored

\* C27 amended: a revert that returned has restored the original; called
\* right after a migrate that returned, while the clone carries the name,
\* revert raises and the original keeps its '-orig' name; without a '-orig'
\* VM revert raises InstanceNotFound having only looked the name up.
C27_RevertRestoresOnceNameIsFree ==
  /\ (Ended("finish_revert_migration") /\ lres = Returned) => OriginalRestored
  /\ (/\ Ended("finish_revert_migration")
      /\ lprev = [op |-> "migrate_disk_and_power_off", res |-> Returned])
       => /\ lres.kind = "raised"
          /\ llog[1].ok
               => \E v \in hvms : v.id = vm_ref /\ v.name = InstanceName \o "-orig"
  /\ (Ended("finish_revert_migration") /\ llog[1].ok /\ vm_ref = 0)
       => lres = Raised("InstanceNotFound") /\ Len(llog) = 1

\* C27 witness: after a migrate (VM 2 was its clone) and a destroy that
\* removed the clone, revert returned: VM 1 is 'vm-a' again and powered on.
C27_Witness ==
  /\ lifeOps = 3
  /\ lprev = [op |-> "destroy", res |-> Returned]
  /\ Ended("finish_revert_migration") /\ lres = Returned
  /\ nextId = 3
  /\ \E v \in hvms : v.id = 1 /\ v.name = InstanceName /\ v.power = "poweredOn"
  /\ Cardinality(hvms) = 1

\* ---------------------------------------------------------------- C28
\* C28: rescue powers the target off (when it is on) and waits, calls spawn
\* for '<name>-rescue', and then attaches to the VM of that name the disk of
\* the original, one unit number above its place on the original; when the
\* lookup finds no VM it raises InstanceNotFound having done nothing else.
C28_RescueOrder ==
  /\ [](lop = "rescue"
          => /\ \/ IsPrefix(ChangeOps, <<"PowerOffVM_Task", "spawn", "ReconfigVM_Task">>)
                \/ IsPrefix(ChangeOps, <<"spawn", "ReconfigVM_Task">>)
             /\ \A i \in At("PowerOffVM_Task"), j \in At("spawn") :
                  /\ llog[i].vm = vm_ref /\ llog[i].ok
                  /\ llog[i + 1].op = "_wait_for_task" /\ llog[i + 1].ok
                  /\ i + 1 < j
             /\ \A j \in At("spawn") :
                  /\ llog[j].name = InstanceName \o "-rescue"
                  /\ ~llog[j].busy
                  /\ At("ReconfigVM_Task") # {} => llog[j].ok)
  /\ [][(lop = "rescue" /\ Len(llog') > Len(llog)
           /\ llog'[Len(llog')].op = "ReconfigVM_Task")
          => /\ llog[1] = Read("get_vm_ref_from_name", 0, InstanceName)
             /\ \E r \in hvms :
                  /\ r.id = llog'[Len(llog')].vm
                  /\ r.name = InstanceName \o "-rescue"
             /\ \E o \in hvms :
                  /\ o.id = vm_ref
                  /\ llog'[Len(llog')].disk = [dir |-> o.dir, unit |-> o.unit + 1]]_vars
  /\ []((Ended("rescue") /\ llog[1].ok /\ vm_ref = 0)
          => lres = Raised("InstanceNotFound") /\ Len(llog) = 1)

\* C28 witness: rescue of a VM whose disk sits at unit 1 returned: the VM is
\* powered off and its disk is attached to 'vm-a-rescue' at unit 2.
C28_Witness ==
  /\ Ended("rescue") /\ lres = Returned
  /\ ChangeOps = <<"PowerOffVM_Task", "spawn", "ReconfigVM_Task">>
  /\ \E o \in hvms : o.id = 1 /\ o.name = InstanceName /\ o.unit = 1
                     /\ o.power = "poweredOff"
  /\ \E r \in hvms : r.name = InstanceName \o "-rescue" /\ r.power = "poweredOn"
                     /\ r.extra = {[dir |-> 1, unit |-> 2]}

\* ---------------------------------------------------------------- C29
\* The rescue VM is gone and the VM of the instance's name is powered on.
Unrescued ==
  /\ \A v \in hvms : v.name # InstanceName \o "-rescue"
  /\ \E v \in hvms : v.name = InstanceName /\ v.power = "poweredOn"

\* C29 as stated: once rescue and then unrescue have returned, the rescue VM
\* is gone and the original is powered on.  It fails for an unrescue handed
\* the record rescue left suffixed, which destroys 'vm-a-rescue-rescue' and
\* powers 'vm-a-rescue' on, and for an unrescue whose destroy failed.
C29_UnrescueRemovesRescueVm ==
  (/\ Ended("unrescue") /\ lres = Returned
   /\ lprev = [op |-> "rescue", res |-> Returned])
    => Unrescued

\* ---------------------------------------------------------------- C30
\* C30: teardown completes without raising, whatever the Logout call did:
\* it ended the login, answered with a fault, failed in transport, or found
\* no connection handle.  Only a Logout that returned ends a login.
C30_TeardownNeverRaises ==
  /\ [](torn => delRaised = None /\ logout # "")
  /\ [][(torn' /\ ~torn)
          => /\ logout' \in {Ok, NotAuthenticated, Overloaded, OtherError, NoHandle}
             /\ (vim = NoSession) <=> (logout' = NoHandle)
             /\ active' = IF logout' = Ok THEN active \ {vim} ELSE active]_vars
  /\ [][torn => UNCHANGED vars]_vars

\* C30 witness: after a re-login that failed at Login the handle has no
\* login; teardown's Logout failed in transport and teardown completed.
C30_Witness ==
  /\ torn
  /\ vim = 2 /\ session_id = 1
  /\ logout = OtherError
  /\ delRaised = None

\* ---------------------------------------------------------------- C31
\* C31: an attempt that failed with Overloaded leaves last_fault_list as it
\* was before the attempt, and no relogin is made for it: no handle is
\* built, no login sent, the stored token and the endpoint's logins stay,
\* and the invocation goes to its next try or raises on the spent budget.
C31_OverloadedLeavesFaultListAlone ==
  [][\A c \in workers :
       (/\ pc[c] = "call" /\ pc'[c] # "call"
        /\ outcomes'[c][Len(outcomes'[c])] = Overloaded)
         => /\ last_fault_list'[c] = last_fault_list[c]
            /\ relogins'[c] = relogins[c]
            /\ pc'[c] \in {"try", "done"}
            /\ UNCHANGED <<vim, session_id, created, active, loginVia, session>>]_vars

\* C31 witness: after a NotAuthenticated attempt and its relogin, the next
\* attempt failed with Overloaded: the remembered fault list still holds
\* NotAuthenticated and one relogin was made.
C31_Witness ==
  \E c \in workers :
    /\ outcomes[c] = <<NotAuthenticated, Overloaded>>
    /\ pc[c] = "try"
    /\ last_fault_list[c] = {NotAuthenticated}
    /\ relogins[c] = 1

\* ---------------------------------------------------------------- C32
\* C32: when TerminateSession answers, whether it raised or not,
\* _create_session completes: the stored token becomes the key of the new
\* login and no login failure is raised.  TerminateSession is sent only
\* after Login returned a key: up to then no login is ended by the relogin,
\* and its target is the token stored before.
C32_TerminateFailureIsNotFatal ==
  /\ [][\A c \in workers :
          (pc[c] = "terminate" /\ pc'[c] # "terminate")
            => /\ session_id' = session[c]
               /\ session[c] = loginVia[c]
               /\ raised'[c] # LoginFailed
               /\ pc'[c] \in {"try", "done"}
               /\ active' \in {active, active \ {termTarget[c]}}]_vars
  /\ [][\A c \in workers :
          (pc[c] \in {"newvim", "login"} /\ pc'[c] # pc[c])
            => /\ active \subseteq active'
               /\ pc'[c] = "terminate"
                    => /\ pc[c] = "login"
                       /\ session'[c] = loginVia[c]
                       /\ session'[c] \in active'
                       /\ termTarget'[c] = session_id
                       /\ session_id' = session_id]_vars

\* C32 witness: the relogin's TerminateSession raised while the prior login
\* was alive; the new token is stored, the prior login stays alive, and the
\* call went on to succeed.
C32_Witness ==
  \E c \in workers :
    /\ failedTerms = 1
    /\ session_id = 2 /\ vim = 2
    /\ active = {1, 2}
    /\ Finished(c) /\ result[c] = Value
    /\ outcomes[c] = <<NotAuthenticated, Ok>>

\* ---------------------------------------------------------------- C36
\* C36: a relogin that fails (no handle built, or Login raised) ends the
\* invocation at once with the login failure: no further attempt is made,
\* whatever is left of the budget, and the stored token keeps its value.
C36_FailedReloginRaisesAtOnce ==
  /\ [][\A c \in workers :
          (/\ pc[c] \in {"newvim", "login"}
           /\ pc'[c] \notin {pc[c], "login", "terminate"})
            => \/ /\ pc[c] = "login" /\ session_id' = session'[c]
                  /\ session'[c] \in active'
               \/ /\ pc'[c] = "done"
                  /\ raised'[c] = LoginFailed
                  /\ result'[c] = None
                  /\ session_id' = session_id
                  /\ active' = active
                  /\ outcomes'[c] = outcomes[c]
                  /\ retry_count'[c] = retry_count[c]]_vars
  /\ [](\A c \in workers :
          raised[c] = LoginFailed
            => /\ Finished(c)
               /\ LastOutcome(c) = NotAuthenticated
               /\ relogins[c] = 1)

\* C36 witness: the first attempt got NotAuthenticated, Login through the
\* new handle raised; the invocation ended with the login failure after one
\* attempt of a budget of two, the token still that of the first login.
C36_Witness ==
  \E c \in workers :
    /\ api_retry_count = 2
    /\ Finished(c) /\ raised[c] = LoginFailed
    /\ outcomes[c] = <<NotAuthenticated>>
    /\ retry_count[c] = 1
    /\ vim = 2 /\ session_id = 1

FaultClasses ==
  {"VimFaultException", "VimAttributeError", "SessionOverLoadException",
   "VimException"}
\* One of the three markers is in the exception's message.
HasMarker(e) == \E i \in 1..3 : e.find[i] # -1

\* C34: every exception of a request leaves the handler as exactly one of
\* the four classes: a WebFault as VimFaultException with the types of the
\* fault's detail, an AttributeError as VimAttributeError, and any other one
\* as SessionOverLoadException when it is one of the three httplib errors
\* or its message holds one of the three markers, else as VimException.
C34_EveryFailureClassified ==
  handled # Unhandled
    => /\ handled.class \in FaultClasses
       /\ handled.class = "VimFaultException"
            <=> excep.type = "WebFault"
       /\ excep.type = "WebFault" => handled.fault_list = excep.detail.types
       /\ handled.class = "VimAttributeError"
            <=> excep.type = "AttributeError"
       /\ handled.class = "SessionOverLoadException"
            <=> \/ excep.type \in HttplibErrors
                \/ excep.type = "OtherException" /\ HasMarker(excep)

\* Where the handler does classify (the message can be taken as str, a
\* WebFault has its detail element), the classes are as stated; the
\* parentheses of lines 117-119 make no difference.
ClassifiedWhenReadable ==
  (/\ handled # Unhandled
   /\ excep.type = "WebFault" => excep.detail.present
   /\ excep.type = "OtherException" => excep.ascii)
    => C34_EveryFailureClassified

\* ---------------------------------------------------------------- C35
\* C35 as stated: destroy always returns normally.
C35_DestroyNeverPropagates ==
  Ended("destroy") => lres = Returned

\* C35 amended: destroy of src/vmops.py always returns; destroy of the
\* package raises exactly the faults of the lookup, the property fetch and
\* the power-off (call or wait), having issued neither UnregisterVM nor the
\* folder deletion; once UnregisterVM was called, both return.
C35_DestroyPropagatesOnlyEarlyFaultsOfPackage ==
  /\ (Ended("destroy") /\ variant = "nova") => lres = Returned
  /\ (Ended("destroy") /\ lres # Returned)
       => /\ variant = "package"
          /\ At("UnregisterVM") = {}
          /\ At("DeleteDatastoreFile_Task") = {}
          /\ ~llog[Len(llog)].ok
          /\ llog[Len(llog)].op \in {"get_vm_ref_from_name", "get_object_properties",
                                      "PowerOffVM_Task", "_wait_for_task"}
  /\ (Ended("destroy") /\ At("UnregisterVM") # {}) => lres = Returned

\* C35 witness: destroy of src/vmops.py returned although the wait for its
\* power-off job failed; nothing was unregistered.
C35_Witness ==
  /\ variant = "nova"
  /\ Ended("destroy") /\ lres = Returned
  /\ \E i \in At("PowerOffVM_Task") :
       /\ llog[i].ok /\ Len(llog) = i + 1
       /\ llog[i + 1].op = "_wait_for_task" /\ ~llog[i + 1].ok
  /\ At("UnregisterVM") = {}

\* ---------------------------------------------------------------- C38
\* C38: in destroy (also as called by unrescue) UnregisterVM and the folder
\* deletion come only after a power-off that succeeded, when one was
\* needed: a VM read as poweredOn gets PowerOffVM_Task, and when that call
\* or its wait fails destroy ends with neither of the two; UnregisterVM is
\* reached only from a VM read as not powered on or from a power-off wait
\* that succeeded.
C38_PowerOffFailureEndsDestroy ==
  /\ [](lop \in {"destroy", "unrescue"}
          => \A i \in At("PowerOffVM_Task") :
               \A k \in At("UnregisterVM") \cup At("DeleteDatastoreFile_Task") :
                 /\ llog[i].ok
                 /\ llog[i + 1].op = "_wait_for_task" /\ llog[i + 1].ok
                 /\ i + 1 < k)
  /\ [][(lpc = "d_poweroff" /\ lpc' # lpc /\ llog'[Len(llog) + 1].ok)
          => IF VmOf(vm_ref).power = "poweredOn"
               THEN /\ llog'[Len(llog')].op = "PowerOffVM_Task"
                    /\ lpc' # "d_unregister"
               ELSE /\ Len(llog') = Len(llog) + 1
                    /\ lpc' = "d_unregister"]_vars
  /\ [][(lpc' = "d_unregister" /\ lpc # "d_unregister")
          => \/ lpc = "d_poweroff" /\ VmOf(vm_ref).power # "poweredOn"
             \/ /\ lpc = "wait" /\ ltask.op = "PowerOffVM_Task"
                /\ ltask.state = "success"
                /\ llog'[Len(llog')].ok]_vars
  /\ [][(lpc' \in {"d_delete"} /\ lpc # lpc') => lpc = "d_unregister"]_vars

\* C38 witness: the package's destroy of a powered-on VM raised when the
\* power-off job ended in error; the VM is still registered and powered on.
C38_Witness ==
  /\ variant = "package"
  /\ Ended("destroy") /\ lres = Raised("TaskError")
  /\ ltask.op = "PowerOffVM_Task" /\ ltask.state = "error"
  /\ At("UnregisterVM") = {} /\ At("DeleteDatastoreFile_Task") = {}
  /\ \E v \in hvms : v.id = vm_ref /\ v.power = "poweredOn"

\* ---------------------------------------------------------------- C40
\* C40: power_off calls PowerOffVM_Task exactly for a VM read as poweredOn,
\* goes on without a job for one that is powered off, and raises
\* InstancePowerOffFailure without a job for a suspended one, so that rescue
\* and migrate of a suspended VM end before spawn or rename; power_on calls
\* PowerOnVM_Task exactly for a VM not read as poweredOn and returns without
\* a job otherwise; both raise InstanceNotFound when the name has no VM.
C40_PowerControlGuardedByState ==
  /\ [][(lpc = "off" /\ lpc' # lpc)
          => IF RefOfName(lname) = 0
               THEN /\ lres' = Raised("InstanceNotFound")
                    /\ ltask' = ltask
                    /\ Len(llog') = Len(llog) + 1
               ELSE /\ VmOf(RefOfName(lname)).power = "poweredOn"
                         <=> /\ llog'[Len(llog')].op = "PowerOffVM_Task"
                             /\ llog'[Len(llog')].vm = RefOfName(lname)
                    /\ VmOf(RefOfName(lname)).power = "poweredOff"
                         => /\ ltask' = ltask /\ lres' = NotEnded
                            /\ lpc' \in {"r_spawn", "m_rename"}
                    /\ VmOf(RefOfName(lname)).power = "suspended"
                         => /\ ltask' = ltask /\ lpc' = "idle"
                            /\ lres' = Raised("InstancePowerOffFailure")]_vars
  /\ [][(lpc = "on" /\ lpc' # lpc)
          => IF RefOfName(lname) = 0
               THEN /\ lres' = Raised("InstanceNotFound")
                    /\ ltask' = ltask
                    /\ Len(llog') = Len(llog) + 1
               ELSE /\ VmOf(RefOfName(lname)).power # "poweredOn"
                         <=> /\ llog'[Len(llog')].op = "PowerOnVM_Task"
                             /\ llog'[Len(llog')].vm = RefOfName(lname)
                    /\ VmOf(RefOfName(lname)).power = "poweredOn"
                         => /\ ltask' = ltask /\ lpc' = "idle"
                            /\ lres' = Returned]_vars
  /\ []((lop \in {"rescue", "migrate_disk_and_power_off"}
            /\ lres = Raised("InstancePowerOffFailure"))
          => /\ ChangeOps = <<>>
             /\ At("spawn") = {} /\ At("Rename_Task") = {})

\* C40 witness: migrate of a suspended VM raised InstancePowerOffFailure
\* having issued nothing; the VM keeps its name and is still suspended.
C40_Witness ==
  /\ Ended("migrate_disk_and_power_off")
  /\ lres = Raised("InstancePowerOffFailure")
  /\ ChangeOps = <<>>
  /\ \E v \in hvms : v.name = InstanceName /\ v.power = "suspended"
  /\ ltask = NoLifeTask

\* ---------------------------------------------------------------- C39
\* C39 as stated: when rescue or unrescue has ended, by returning or by
\* raising, the record it was handed carries the name it carried on entry.
\* rescue leaves the suffixed name in it once it has passed line 814.
C39_RequestNameUnchanged ==
  (Ended("rescue") \/ Ended("unrescue")) => lname = lentry

\* unrescue by itself does: its destroy never raises and the line after it
\* assigns the saved name back.
UnrescueRestoresName ==
  Ended("unrescue") => lname = lentry

\* The same record handed to rescue and then to unrescue: unrescue has
\* returned with no VM of the twice-suffixed name to destroy, the rescue VM
\* still registered.
ReusedRecordMissesRescueVm ==
  /\ Ended("unrescue") /\ lres = Returned
  /\ lprev = [op |-> "rescue", res |-> Returned]
  /\ lentry = RescueName(InstanceName)
  /\ \E v \in hvms : v.name = RescueName(InstanceName)

\* ---------------------------------------------------------------- C37
\* A poll that got no task information: its _call_method raised, or handed
\* back the empty list, whose .name lookup raises AttributeError.
NoInfo(r) == r.kind \in {"raise", "empty"}
ErrorOf(r) == IF r.kind = "raise" THEN r.v ELSE "AttributeError"

\* C37 as stated: when the first poll that sends is one that got no task
\* information, the wait is resolved with that poll's error, never with a
\* value, and once the wait has failed the task was polled no further.
C37_FailedPollEndsPolling ==
  \A i \in 1..Len(observed) :
    (NoInfo(observed[i]) /\ NonTerminalPrefix(i - 1))
      => /\ done = SentException(ErrorOf(observed[i]))
         /\ taskPc # "returned"
         /\ taskPc = "failed" => Len(observed) = i

\* The part that holds: such a poll resolves the wait with its error.
FailedPollResolvesWait ==
  \A i \in 1..Len(observed) :
    (NoInfo(observed[i]) /\ NonTerminalPrefix(i - 1))
      => /\ done = SentException(ErrorOf(observed[i]))
         /\ taskPc # "returned"

\* The wait failed on a poll that raised, and the looping call, never
\* stopped, polled the task again.
PolledAfterFailedPoll ==
  /\ taskPc = "failed"
  /\ Len(observed) > 1
  /\ NoInfo(observed[1])
  /\ running

====
